---- MODULE Spec2Model ----
(***************************************************************************)
(* A model of the btc-hashes library: the streaming hash engines (the      *)
(* array-buffered engine generated by the macros of core/mod.rs and        *)
(* instantiated by Ripemd160, and the Vec-buffered Sha256m of sha2.rs),    *)
(* the Hmac engine built on two hash engines, and the PBKDF2 builder.      *)
(*                                                                         *)
(* Bytes are 0..255.  A 32-bit word is a pair <<hi, lo>> of 16-bit halves  *)
(* (the value hi * 2^16 + lo), so that every u32 operation of the source   *)
(* is computed exactly, modulo 2^32, inside TLC's integer range.           *)
(***************************************************************************)
EXTENDS Integers, Sequences, FiniteSets, TLC

\* ------------------------------------------------------------------------
\* u8 / u32 arithmetic
\* ------------------------------------------------------------------------

Pow2Tab == <<1, 2, 4, 8, 16, 32, 64, 128, 256, 512, 1024, 2048, 4096, 8192,
             16384, 32768, 65536>>

Pow2(n) == Pow2Tab[n + 1]

RECURSIVE AndBits(_, _, _)
AndBits(a, b, n) ==
    IF n = 0 THEN 0
    ELSE (a % 2) * (b % 2) + 2 * AndBits(a \div 2, b \div 2, n - 1)

\* u8 & u8, tabulated
And8 == [a \in 0..255 |-> [b \in 0..255 |-> AndBits(a, b, 8)]]

\* u8 ^ u8
Xor8(a, b) == a + b - 2 * And8[a][b]

And16(a, b) == 256 * And8[a \div 256][b \div 256] + And8[a % 256][b % 256]

\* u32 operators on <<hi, lo>>
BitAnd(x, y) == <<And16(x[1], y[1]), And16(x[2], y[2])>>

BitOr(x, y) == <<x[1] + y[1] - And16(x[1], y[1]), x[2] + y[2] - And16(x[2], y[2])>>

BitXor(x, y) ==
    <<x[1] + y[1] - 2 * And16(x[1], y[1]), x[2] + y[2] - 2 * And16(x[2], y[2])>>

Not(x) == <<65535 - x[1], 65535 - x[2]>>

wrapping_add(x, y) ==
    LET lo == x[2] + y[2]
        hi == x[1] + y[1] + (lo \div 65536)
    IN  <<hi % 65536, lo % 65536>>

rotate_left(x, s) ==
    LET a == IF s % 32 >= 16 THEN <<x[2], x[1]>> ELSE x
        t == s % 16
    IN  IF t = 0 THEN a
        ELSE <<((a[1] * Pow2(t)) % 65536) + (a[2] \div Pow2(16 - t)),
               ((a[2] * Pow2(t)) % 65536) + (a[1] \div Pow2(16 - t))>>

rotr(x, bits) == rotate_left(x, 32 - (bits % 32))

\* x >> n  for 0 <= n < 16
Shr(x, n) ==
    <<x[1] \div Pow2(n), (x[1] % Pow2(n)) * Pow2(16 - n) + (x[2] \div Pow2(n))>>

swap_bytes(x) ==
    <<(x[2] % 256) * 256 + (x[2] \div 256), (x[1] % 256) * 256 + (x[1] \div 256)>>

to_be_bytes(x) == <<x[1] \div 256, x[1] % 256, x[2] \div 256, x[2] % 256>>

to_le_bytes(x) == <<x[2] % 256, x[2] \div 256, x[1] % 256, x[1] \div 256>>

\* the word whose big-endian bytes are b[1..4]
from_be_bytes(b) == <<b[1] * 256 + b[2], b[3] * 256 + b[4]>>

\* ------------------------------------------------------------------------
\* core/message.rs: Message, MessageBlock, MessageSchedule
\* ------------------------------------------------------------------------

RECURSIVE chunks(_, _)
chunks(bytes, n) ==
    IF Len(bytes) = 0 THEN <<>>
    ELSE IF Len(bytes) <= n THEN <<bytes>>
    ELSE <<SubSeq(bytes, 1, n)>> \o chunks(SubSeq(bytes, n + 1, Len(bytes)), n)

\* MessageBlock::from_message(Message::new(message)); Message::new asserts that
\* the length is a multiple of the block size.
MessageNewOk(message, N) == Len(message) % N = 0

from_message(message, N) == chunks(message, N)

\* MessageSchedule::<u32, 16>::from(block): sixteen big-endian words; the
\* expansion loop `for i in 16..W` is empty for W = 16.  (The transmute of the
\* reversed chunk is read on a little-endian host.)
MessageSchedule16(block) ==
    [k \in 1..16 |-> from_be_bytes(SubSeq(block, 4 * k - 3, 4 * k))]

\* a reverse_words that exchanges the halves of each word and not its bytes
reverse_words_halves(schedule) ==
    [k \in DOMAIN schedule |-> <<schedule[k][2], schedule[k][1]>>]

\* MessageSchedule::<u32, N>::reverse_words
reverse_words(schedule) == [k \in DOMAIN schedule |-> swap_bytes(schedule[k])]

\* ------------------------------------------------------------------------
\* ripemd.rs: the RIPEMD-160 compression
\* ------------------------------------------------------------------------

\* functions::ripemd160::{f, g, h, i, j}
fn_f(x, y, z) == BitXor(BitXor(x, y), z)

fn_g(x, y, z) == BitOr(BitAnd(x, y), BitAnd(Not(x), z))

fn_h(x, y, z) == BitXor(BitOr(x, Not(y)), z)

fn_i(x, y, z) == BitOr(BitAnd(x, z), BitAnd(y, Not(z)))

fn_j(x, y, z) == BitXor(x, BitOr(y, Not(z)))

ApplyFn(func, x, y, z) ==
    CASE func = "f" -> fn_f(x, y, z)
      [] func = "g" -> fn_g(x, y, z)
      [] func = "h" -> fn_h(x, y, z)
      [] func = "i" -> fn_i(x, y, z)
      [] func = "j" -> fn_j(x, y, z)

RIPEMD160_INITIAL_CONSTANTS ==
    << <<\h6745, \h2301>>, <<\hefcd, \hab89>>, <<\h98ba, \hdcfe>>,
       <<\h1032, \h5476>>, <<\hc3d2, \he1f0>> >>

\* a pass that rotates the second variable of the five and not the third
RoundStepRolB(v, buf, func, word, rol, const) ==
    LET a1 == wrapping_add(wrapping_add(wrapping_add(v[buf[1]],
                  ApplyFn(func, v[buf[2]], v[buf[3]], v[buf[4]])), word), const)
        a2 == wrapping_add(rotate_left(a1, rol), v[buf[5]])
    IN  [v EXCEPT ![buf[1]] = a2, ![buf[2]] = rotate_left(v[buf[2]], 10)]

\* One pass `for x in 0..16` body of round!: v holds the five variables the
\* round was given (aa..ee or aaa..eee), buf the positions in v of the five
\* references, so that buf.rotate_right(1) permutes buf and leaves v alone.
RoundStep(v, buf, func, word, rol, const) ==
    LET a1 == wrapping_add(wrapping_add(wrapping_add(v[buf[1]],
                  ApplyFn(func, v[buf[2]], v[buf[3]], v[buf[4]])), word), const)
        a2 == wrapping_add(rotate_left(a1, rol), v[buf[5]])
    IN  [v EXCEPT ![buf[1]] = a2, ![buf[3]] = rotate_left(v[buf[3]], 10)]

RECURSIVE RoundLoop(_, _, _, _, _, _, _, _)

\* buf.rotate_right(1) and the next pass; nv = nv has TLC compute the pass
\* just made before it starts the next
RoundNext(nv, buf, words, func, word_ord, rol_ord, const, x) ==
    IF nv = nv
    THEN RoundLoop(nv, <<buf[5], buf[1], buf[2], buf[3], buf[4]>>,
                   words, func, word_ord, rol_ord, const, x + 1)
    ELSE nv

RoundLoop(v, buf, words, func, word_ord, rol_ord, const, x) ==
    IF x = 16 THEN v
    ELSE RoundNext(RoundStep(v, buf, func, words[word_ord[x + 1] + 1],
                             rol_ord[x + 1], const),
                   buf, words, func, word_ord, rol_ord, const, x)

\* round!(words, func, buf, word_ord, rol_ord, const)
round(v, words, func, buf, word_ord, rol_ord, const) ==
    RoundLoop(v, buf, words, func, word_ord, rol_ord, const, 0)

\* the five rounds of the left line, innermost first
LeftLine(v, words) ==
    round(round(round(round(round(v, words, "f", <<1, 2, 3, 4, 5>>,
                <<0, 1, 2, 3, 4, 5, 6, 7, 8, 9, 10, 11, 12, 13, 14, 15>>,
                <<11, 14, 15, 12, 5, 8, 7, 9, 11, 13, 14, 15, 6, 7, 9, 8>>,
                <<\h0000, \h0000>>),
            words, "g", <<5, 1, 2, 3, 4>>,
                <<7, 4, 13, 1, 10, 6, 15, 3, 12, 0, 9, 5, 2, 14, 11, 8>>,
                <<7, 6, 8, 13, 11, 9, 7, 15, 7, 12, 15, 9, 11, 7, 13, 12>>,
                <<\h5a82, \h7999>>),
            words, "h", <<4, 5, 1, 2, 3>>,
                <<3, 10, 14, 4, 9, 15, 8, 1, 2, 7, 0, 6, 13, 11, 5, 12>>,
                <<11, 13, 6, 7, 14, 9, 13, 15, 14, 8, 13, 6, 5, 12, 7, 5>>,
                <<\h6ed9, \heba1>>),
            words, "i", <<3, 4, 5, 1, 2>>,
                <<1, 9, 11, 10, 0, 8, 12, 4, 13, 3, 7, 15, 14, 5, 6, 2>>,
                <<11, 12, 14, 15, 14, 15, 9, 8, 9, 14, 5, 6, 8, 6, 5, 12>>,
                <<\h8f1b, \hbcdc>>),
            words, "j", <<2, 3, 4, 5, 1>>,
                <<4, 0, 5, 9, 7, 12, 2, 10, 14, 1, 3, 8, 11, 6, 15, 13>>,
                <<9, 15, 5, 11, 6, 8, 13, 12, 5, 12, 13, 14, 11, 8, 5, 6>>,
                <<\ha953, \hfd4e>>)

\* the five rounds of the parallel line, innermost first
ParallelLine(v, words) ==
    round(round(round(round(round(v, words, "j", <<1, 2, 3, 4, 5>>,
                <<5, 14, 7, 0, 9, 2, 11, 4, 13, 6, 15, 8, 1, 10, 3, 12>>,
                <<8, 9, 9, 11, 13, 15, 15, 5, 7, 7, 8, 11, 14, 14, 12, 6>>,
                <<\h50a2, \h8be6>>),
            words, "i", <<5, 1, 2, 3, 4>>,
                <<6, 11, 3, 7, 0, 13, 5, 10, 14, 15, 8, 12, 4, 9, 1, 2>>,
                <<9, 13, 15, 7, 12, 8, 9, 11, 7, 7, 12, 7, 6, 15, 13, 11>>,
                <<\h5c4d, \hd124>>),
            words, "h", <<4, 5, 1, 2, 3>>,
                <<15, 5, 1, 3, 7, 14, 6, 9, 11, 8, 12, 2, 10, 0, 4, 13>>,
                <<9, 7, 15, 11, 8, 6, 6, 14, 12, 13, 5, 14, 13, 13, 7, 5>>,
                <<\h6d70, \h3ef3>>),
            words, "g", <<3, 4, 5, 1, 2>>,
                <<8, 6, 4, 1, 3, 11, 15, 0, 5, 12, 2, 13, 9, 7, 10, 14>>,
                <<15, 5, 8, 11, 14, 14, 6, 14, 6, 9, 12, 9, 12, 5, 15, 8>>,
                <<\h7a6d, \h76e9>>),
            words, "f", <<2, 3, 4, 5, 1>>,
                <<12, 15, 10, 4, 1, 5, 8, 7, 6, 2, 13, 14, 0, 3, 9, 11>>,
                <<8, 5, 12, 9, 12, 5, 14, 6, 8, 13, 6, 5, 15, 13, 11, 11>>,
                <<\h0000, \h0000>>)

\* closing additions that add to every register the results of its own index
CombineStraight(buffer, l, p) ==
    [n \in 1..5 |-> wrapping_add(wrapping_add(buffer[n], l[n]), p[n])]

\* the closing additions: buffer = mdbuf on entry, l = <<aa, bb, cc, dd, ee>>,
\* p = <<aaa, bbb, ccc, ddd, eee>>
Combine(buffer, l, p) ==
    << wrapping_add(wrapping_add(p[4], l[3]), buffer[2]),
       wrapping_add(wrapping_add(buffer[3], l[4]), p[5]),
       wrapping_add(wrapping_add(buffer[4], l[5]), p[1]),
       wrapping_add(wrapping_add(buffer[5], l[1]), p[2]),
       wrapping_add(wrapping_add(buffer[1], l[2]), p[3]) >>

ProcessWords(mdbuf, words) ==
    Combine(mdbuf, LeftLine(mdbuf, words), ParallelLine(mdbuf, words))

\* Ripemd160::process_block(mdbuf, block): the new register bank.  The test
\* has TLC compute both arguments before the rounds start.
process_block(mdbuf, block) ==
    IF mdbuf = mdbuf /\ block = block
    THEN ProcessWords(mdbuf, reverse_words(MessageSchedule16(block)))
    ELSE mdbuf


\* ------------------------------------------------------------------------
\* core/functions.rs and sha2.rs: the SHA-256 compression
\* ------------------------------------------------------------------------

choice(x, y, z) == BitXor(BitAnd(x, y), BitAnd(Not(x), z))

majority(x, y, z) == BitXor(BitXor(BitAnd(x, y), BitAnd(x, z)), BitAnd(y, z))

usigma0(x) == BitXor(BitXor(rotr(x, 2), rotr(x, 13)), rotr(x, 22))

usigma1(x) == BitXor(BitXor(rotr(x, 6), rotr(x, 11)), rotr(x, 25))

lsigma0(x) == BitXor(BitXor(rotr(x, 7), rotr(x, 18)), Shr(x, 3))

lsigma1(x) == BitXor(BitXor(rotr(x, 17), rotr(x, 19)), Shr(x, 10))

SHA256_INITIAL_CONSTANTS ==
    <<
      <<\h6a09, \he667>>, <<\hbb67, \hae85>>, <<\h3c6e, \hf372>>, <<\ha54f, \hf53a>>,
      <<\h510e, \h527f>>, <<\h9b05, \h688c>>, <<\h1f83, \hd9ab>>, <<\h5be0, \hcd19>>
    >>

SHA256_ROUND_CONSTANTS ==
    <<
      <<\h428a, \h2f98>>, <<\h7137, \h4491>>, <<\hb5c0, \hfbcf>>, <<\he9b5, \hdba5>>,
      <<\h3956, \hc25b>>, <<\h59f1, \h11f1>>, <<\h923f, \h82a4>>, <<\hab1c, \h5ed5>>,
      <<\hd807, \haa98>>, <<\h1283, \h5b01>>, <<\h2431, \h85be>>, <<\h550c, \h7dc3>>,
      <<\h72be, \h5d74>>, <<\h80de, \hb1fe>>, <<\h9bdc, \h06a7>>, <<\hc19b, \hf174>>,
      <<\he49b, \h69c1>>, <<\hefbe, \h4786>>, <<\h0fc1, \h9dc6>>, <<\h240c, \ha1cc>>,
      <<\h2de9, \h2c6f>>, <<\h4a74, \h84aa>>, <<\h5cb0, \ha9dc>>, <<\h76f9, \h88da>>,
      <<\h983e, \h5152>>, <<\ha831, \hc66d>>, <<\hb003, \h27c8>>, <<\hbf59, \h7fc7>>,
      <<\hc6e0, \h0bf3>>, <<\hd5a7, \h9147>>, <<\h06ca, \h6351>>, <<\h1429, \h2967>>,
      <<\h27b7, \h0a85>>, <<\h2e1b, \h2138>>, <<\h4d2c, \h6dfc>>, <<\h5338, \h0d13>>,
      <<\h650a, \h7354>>, <<\h766a, \h0abb>>, <<\h81c2, \hc92e>>, <<\h9272, \h2c85>>,
      <<\ha2bf, \he8a1>>, <<\ha81a, \h664b>>, <<\hc24b, \h8b70>>, <<\hc76c, \h51a3>>,
      <<\hd192, \he819>>, <<\hd699, \h0624>>, <<\hf40e, \h3585>>, <<\h106a, \ha070>>,
      <<\h19a4, \hc116>>, <<\h1e37, \h6c08>>, <<\h2748, \h774c>>, <<\h34b0, \hbcb5>>,
      <<\h391c, \h0cb3>>, <<\h4ed8, \haa4a>>, <<\h5b9c, \hca4f>>, <<\h682e, \h6ff3>>,
      <<\h748f, \h82ee>>, <<\h78a5, \h636f>>, <<\h84c8, \h7814>>, <<\h8cc7, \h0208>>,
      <<\h90be, \hfffa>>, <<\ha450, \h6ceb>>, <<\hbef9, \ha3f7>>, <<\hc671, \h78f2>>
    >>

\* ((a as u64 + b as u64 + c as u64 + d as u64) % 2u64.pow(32)) as u32
WidenAddMod(a, b, c, d) ==
    LET lo == a[2] + b[2] + c[2] + d[2]
        hi == a[1] + b[1] + c[1] + d[1] + (lo \div 65536)
    IN  <<hi % 65536, lo % 65536>>

\* the loop `for i in 16..W` of MessageSchedule::<u32, W>::from, as the passes
\* that push the words at the 1-based positions lo..hi: the first half of the
\* passes, then the second half on the schedule the first half leaves
RECURSIVE ExpandSchedule(_, _, _)

ExpandNext(nw, lo, hi) == IF nw = nw THEN ExpandSchedule(nw, lo, hi) ELSE nw

\* i is the 1-based position of the word pushed
ExpandWord(words, i) ==
    WidenAddMod(lsigma1(words[i - 2]), words[i - 7],
                lsigma0(words[i - 15]), words[i - 16])

ExpandSchedule(words, lo, hi) ==
    IF lo > hi THEN words
    ELSE IF lo = hi THEN Append(words, ExpandWord(words, lo))
    ELSE ExpandNext(ExpandSchedule(words, lo, (lo + hi) \div 2),
                    ((lo + hi) \div 2) + 1, hi)

\* MessageSchedule::<u32, 64>::from(block)
MessageSchedule64(block) == ExpandSchedule(MessageSchedule16(block), 17, 64)

\* one pass of `for i in 0..$schedule_length` of sha2_compression!;
\* r = <<a, b, c, d, e, f, g, h>>
Sha2Temp1(r, k, w) ==
    wrapping_add(wrapping_add(wrapping_add(wrapping_add(
        usigma1(r[5]), choice(r[5], r[6], r[7])), r[8]), k), w)

Sha2Temp2(r) == wrapping_add(usigma0(r[1]), majority(r[1], r[2], r[3]))

Sha2Shift(r, t1, t2) ==
    <<wrapping_add(t1, t2), r[1], r[2], r[3],
      wrapping_add(r[4], t1), r[5], r[6], r[7]>>

Sha2Round(r, k, w) == Sha2Shift(r, Sha2Temp1(r, k, w), Sha2Temp2(r))

\* the passes lo..hi (1-based) of `for i in 0..$schedule_length`: the first
\* half of the passes, then the second half on the registers they leave
RECURSIVE Sha2Rounds(_, _, _, _)

Sha2RoundsNext(nr, schedule, lo, hi) ==
    IF nr = nr THEN Sha2Rounds(nr, schedule, lo, hi) ELSE nr

Sha2Rounds(r, schedule, lo, hi) ==
    IF lo > hi THEN r
    ELSE IF lo = hi THEN Sha2Round(r, SHA256_ROUND_CONSTANTS[lo], schedule[lo])
    ELSE Sha2RoundsNext(Sha2Rounds(r, schedule, lo, (lo + hi) \div 2),
                        schedule, ((lo + hi) \div 2) + 1, hi)

\* the closing `state[n] = state[n].wrapping_add(registers[n])`
Sha2Add(state, r) == [n \in 1..8 |-> wrapping_add(state[n], r[n])]

Sha2Digest(state, schedule) ==
    Sha2Add(state, Sha2Rounds(state, schedule, 1, Len(schedule)))

\* Sha256m::process_block (sha2_compression!(SHA256_ROUND_CONSTANTS, 64, u32))
sha2_process_block(state, block) ==
    IF state = state /\ block = block
    THEN Sha2Digest(state, MessageSchedule64(block))
    ELSE state


\* ------------------------------------------------------------------------
\* core/functions.rs on u64.  A 64-bit word is four 16-bit limbs, most
\* significant first; the operators below take words of any number of limbs.
\* ------------------------------------------------------------------------

LimbsAnd(x, y) == [k \in DOMAIN x |-> And16(x[k], y[k])]

LimbsXor(x, y) == [k \in DOMAIN x |-> x[k] + y[k] - 2 * And16(x[k], y[k])]

LimbsNot(x) == [k \in DOMAIN x |-> 65535 - x[k]]

\* x >> n for 0 <= n < 16
LimbsShr(x, n) ==
    [k \in DOMAIN x |->
        (x[k] \div Pow2(n))
        + (IF k = 1 THEN 0 ELSE (x[k - 1] % Pow2(n)) * Pow2(16 - n))]

\* x.rotr(n): whole limbs first, then the n % 16 bits that are left
LimbsRotr(x, n) ==
    LET a == [k \in DOMAIN x |-> x[((k - 1 - (n \div 16)) % Len(x)) + 1]]
    IN  [k \in DOMAIN x |->
            (a[k] \div Pow2(n % 16))
            + (a[((k - 2) % Len(x)) + 1] % Pow2(n % 16)) * Pow2(16 - (n % 16))]

\* choice and majority are generic over the word type
choice64(x, y, z) == LimbsXor(LimbsAnd(x, y), LimbsAnd(LimbsNot(x), z))

majority64(x, y, z) ==
    LimbsXor(LimbsXor(LimbsAnd(x, y), LimbsAnd(x, z)), LimbsAnd(y, z))

\* impl SigmaFunctions<u64> for u64
u64_usigma0(x) == LimbsXor(LimbsXor(LimbsRotr(x, 28), LimbsRotr(x, 34)), LimbsRotr(x, 39))

u64_usigma1(x) == LimbsXor(LimbsXor(LimbsRotr(x, 14), LimbsRotr(x, 18)), LimbsRotr(x, 41))

u64_lsigma0(x) == LimbsXor(LimbsXor(LimbsRotr(x, 1), LimbsRotr(x, 8)), LimbsShr(x, 7))

u64_lsigma1(x) == LimbsXor(LimbsXor(LimbsRotr(x, 19), LimbsRotr(x, 61)), LimbsShr(x, 6))

\* the functions of the word type of x: u32 (two limbs) or u64 (four)
Usigma0(x) == IF Len(x) = 2 THEN usigma0(x) ELSE u64_usigma0(x)

Usigma1(x) == IF Len(x) = 2 THEN usigma1(x) ELSE u64_usigma1(x)

Lsigma0(x) == IF Len(x) = 2 THEN lsigma0(x) ELSE u64_lsigma0(x)

Lsigma1(x) == IF Len(x) = 2 THEN lsigma1(x) ELSE u64_lsigma1(x)

Choice(x, y, z) == IF Len(x) = 2 THEN choice(x, y, z) ELSE choice64(x, y, z)

Majority(x, y, z) == IF Len(x) = 2 THEN majority(x, y, z) ELSE majority64(x, y, z)

\* ------------------------------------------------------------------------
\* Sums in the double-width type: u32 terms added as u64, u64 terms as u128
\* ------------------------------------------------------------------------

\* the sum of limb k of the terms
RECURSIVE SumColumn(_, _)
SumColumn(terms, k) ==
    IF Len(terms) = 0 THEN 0 ELSE Head(terms)[k] + SumColumn(Tail(terms), k)

\* the limbs k..1 of the sum of the terms with carry c into limb k, least
\* significant limb last, and the carry out of the first limb in front
RECURSIVE SumLimbs(_, _, _)
SumLimbs(terms, k, c) ==
    IF k = 0 THEN <<c>>
    ELSE SumLimbs(terms, k - 1, (SumColumn(terms, k) + c) \div 65536)
         \o <<(SumColumn(terms, k) + c) % 65536>>

\* the exact sum of the terms: value is the sum modulo the width of the terms,
\* carry what is above it
WideSum(terms) ==
    [carry |-> Head(SumLimbs(terms, Len(terms[1]), 0)),
     value |-> Tail(SumLimbs(terms, Len(terms[1]), 0))]

\* the number of 16-bit limbs that c takes
RECURSIVE LimbsOf(_)
LimbsOf(c) == IF c < 65536 THEN 1 ELSE 1 + LimbsOf(c \div 65536)

\* the sum does not fit the double-width type it is computed in
WideOverflows(sum) == sum.carry # 0 /\ LimbsOf(sum.carry) > Len(sum.value)

\* (sum % 2u64.pow(32)) as u32, (sum % 2u128.pow(64)) as u64
WideMod(sum) == sum.value

\* ------------------------------------------------------------------------
\* core/message.rs: MessageSchedule::<u64, W>::from(block)
\* ------------------------------------------------------------------------

\* chunk.reverse() and the transmute of the eight bytes, read on a
\* little-endian host: byte n of the reversed chunk has the weight 256^(n-1)
Word64FromChunk(chnk_slc) ==
    LET chunk == [n \in 1..8 |-> chnk_slc[9 - n]]
    IN  [l \in 1..4 |-> chunk[2 * (4 - l) + 2] * 256 + chunk[2 * (4 - l) + 1]]

\* block.0.chunks(8).map(..).collect()
InitialWords64(block) ==
    [k \in 1..(Len(block) \div 8) |-> Word64FromChunk(SubSeq(block, 8 * k - 7, 8 * k))]

\* the u128 sum of the pass that pushes the word at the 1-based position i
ExpandSum64(words, i) ==
    WideSum(<<u64_lsigma1(words[i - 2]), words[i - 7],
              u64_lsigma0(words[i - 15]), words[i - 16]>>)

\* a pass that takes the word 8 back in place of the word 7 back
ExpandWord64Off(words, i) ==
    WideMod(WideSum(<<u64_lsigma1(words[i - 2]), words[i - 8],
                      u64_lsigma0(words[i - 15]), words[i - 16]>>))

ExpandWord64(words, i) == WideMod(ExpandSum64(words, i))

\* assert_eq!(words.len(), W)
ScheduleAssert(words, W) == Len(words) = W

\* ------------------------------------------------------------------------
\* core/state.rs: the SHA-2 compressions with sums taken in the wide type
\* ------------------------------------------------------------------------

\* one pass of `for i in 0..schedule.0.len()` of compress;
\* r = <<a, b, c, d, e, f, g, h>>
CompressT1Sum(r, k, w) ==
    WideSum(<<Usigma1(r[5]), Choice(r[5], r[6], r[7]), r[8], k, w>>)

CompressT2Sum(r) == WideSum(<<Usigma0(r[1]), Majority(r[1], r[2], r[3])>>)

\* a shift that adds t1 to e before e takes the value of d
CompressShiftOldE(r, t1, t2) ==
    <<WideMod(WideSum(<<t1, t2>>)), r[1], r[2], r[3],
      WideMod(WideSum(<<r[5], t1>>)), r[5], r[6], r[7]>>

\* h = g; ..; b = a; a = t1 + t2; e = e + t1, where e holds the former d
CompressShift(r, t1, t2) ==
    <<WideMod(WideSum(<<t1, t2>>)), r[1], r[2], r[3],
      WideMod(WideSum(<<r[4], t1>>)), r[5], r[6], r[7]>>

CompressRound(r, k, w) ==
    CompressShift(r, WideMod(CompressT1Sum(r, k, w)), WideMod(CompressT2Sum(r)))

\* new_state[n] = ((state[n] as wide + registers[n] as wide) % 2^bits) as word
CompressAdd(state, r) == [n \in 1..8 |-> WideMod(WideSum(<<state[n], r[n]>>))]

\* the wide sums that a pass on r and the closing additions of r into state take
CompressSums(state, r, k, w) ==
    {CompressT1Sum(r, k, w), CompressT2Sum(r),
     WideSum(<<WideMod(CompressT1Sum(r, k, w)), WideMod(CompressT2Sum(r))>>),
     WideSum(<<r[4], WideMod(CompressT1Sum(r, k, w))>>)}
    \cup {WideSum(<<state[n], r[n]>>) : n \in 1..8}

\* ------------------------------------------------------------------------
\* sha2.rs: sha2_compression!(SHA512_ROUND_CONSTANTS, 80, u64)
\* ------------------------------------------------------------------------

\* u64::wrapping_add
u64_wrapping_add(x, y) ==
    LET l4 == x[4] + y[4]
        l3 == x[3] + y[3] + (l4 \div 65536)
        l2 == x[2] + y[2] + (l3 \div 65536)
        l1 == x[1] + y[1] + (l2 \div 65536)
    IN  <<l1 % 65536, l2 % 65536, l3 % 65536, l4 % 65536>>

Sha512Temp1(r, k, w) ==
    u64_wrapping_add(u64_wrapping_add(u64_wrapping_add(u64_wrapping_add(
        u64_usigma1(r[5]), choice64(r[5], r[6], r[7])), r[8]), k), w)

Sha512Temp2(r) == u64_wrapping_add(u64_usigma0(r[1]), majority64(r[1], r[2], r[3]))

Sha512Round(r, k, w) ==
    <<u64_wrapping_add(Sha512Temp1(r, k, w), Sha512Temp2(r)), r[1], r[2], r[3],
      u64_wrapping_add(r[4], Sha512Temp1(r, k, w)), r[5], r[6], r[7]>>

Sha512Add(state, r) == [n \in 1..8 |-> u64_wrapping_add(state[n], r[n])]

\* ------------------------------------------------------------------------
\* Helpers on byte sequences
\* ------------------------------------------------------------------------

Zeros(n) == [k \in 1..n |-> 0]

Fill(b, n) == [k \in 1..n |-> b]

Rev(seq) == [k \in 1..Len(seq) |-> seq[Len(seq) + 1 - k]]

Min(a, b) == IF a <= b THEN a ELSE b

\* flat_map over a short sequence of byte sequences
RECURSIVE Flatten(_)
Flatten(seqs) == IF Len(seqs) = 0 THEN <<>> ELSE Head(seqs) \o Flatten(Tail(seqs))

Pow256 == <<1, 256, 65536, 16777216>>

\* u64::to_le_bytes of a length below 2^31 (every length of the model is)
u64_to_le_bytes(n) ==
    [k \in 1..8 |-> IF k <= 4 THEN (n \div Pow256[k]) % 256 ELSE 0]

u64_to_be_bytes(n) == Rev(u64_to_le_bytes(n))

\* ------------------------------------------------------------------------
\* core/mod.rs macros + ripemd.rs: the array-buffered engine (Ripemd160)
\* ------------------------------------------------------------------------

BLOCKSIZE == 64

\* size_of_val(&self.length): length is a u64
LEN_BYTES == 8

\* impl_default!: buffer [0; BLOCKSIZE], length 0, state the initial constants
Ripemd160Default ==
    [buffer |-> Zeros(BLOCKSIZE), length |-> 0, state |-> RIPEMD160_INITIAL_CONSTANTS]

\* input_func! with the pending bytes written at the start of the buffer
\* whatever the length
InputStepAtZero(e, data) ==
    LET to_write == Min(BLOCKSIZE - (e.length % BLOCKSIZE), Len(data))
        buffer   == [k \in 1..BLOCKSIZE |->
                       IF k <= to_write THEN data[k] ELSE e.buffer[k]]
        length   == e.length + to_write
        blocks   == from_message(SubSeq(buffer, 1, BLOCKSIZE), BLOCKSIZE)
    IN  [buffer |-> buffer,
         length |-> length,
         state  |-> IF length % BLOCKSIZE = 0
                    THEN process_block(e.state, blocks[1])
                    ELSE e.state]

\* input_func! with the buffer compressed on every pass, full or not
InputStepCompressAlways(e, data) ==
    LET buffer_index == e.length % BLOCKSIZE
        r        == BLOCKSIZE - buffer_index
        to_write == Min(r, Len(data))
        buffer   == [k \in 1..BLOCKSIZE |->
                       IF k > buffer_index /\ k <= buffer_index + to_write
                       THEN data[k - buffer_index] ELSE e.buffer[k]]
        length   == e.length + to_write
        blocks   == from_message(SubSeq(buffer, 1, BLOCKSIZE), BLOCKSIZE)
    IN  [buffer |-> buffer,
         length |-> length,
         state  |-> process_block(e.state, blocks[1])]

\* input_func!: one pass of `while input.len() != 0`
InputStep(e, data) ==
    LET buffer_index == e.length % BLOCKSIZE
        r        == BLOCKSIZE - buffer_index
        to_write == Min(r, Len(data))
        buffer   == [k \in 1..BLOCKSIZE |->
                       IF k > buffer_index /\ k <= buffer_index + to_write
                       THEN data[k - buffer_index] ELSE e.buffer[k]]
        length   == e.length + to_write
        blocks   == from_message(SubSeq(buffer, 1, BLOCKSIZE), BLOCKSIZE)
    IN  [buffer |-> buffer,
         length |-> length,
         state  |-> IF length % BLOCKSIZE = 0
                    THEN process_block(e.state, blocks[1])
                    ELSE e.state]

RECURSIVE input(_, _)

\* input = &input[to_write..] and the next pass
InputNext(ne, data, to_write) ==
    IF ne = ne THEN input(ne, SubSeq(data, to_write + 1, Len(data))) ELSE ne

input(e, data) ==
    IF Len(data) = 0 THEN e
    ELSE InputNext(InputStep(e, data), data,
                   Min(BLOCKSIZE - (e.length % BLOCKSIZE), Len(data)))

\* a reset that leaves the buffer as it is
reset_keeps_buffer(e) ==
    [e EXCEPT !.length = 0, !.state = RIPEMD160_INITIAL_CONSTANTS]

\* iconst_funcs!::reset
reset(e) ==
    [buffer |-> Zeros(BLOCKSIZE), length |-> 0, state |-> RIPEMD160_INITIAL_CONSTANTS]

\* midstate_funcs!::midstate
midstate(e) == e.state

\* a from_midstate that writes its fields before it checks the length
from_midstate_writes_first(e, mid, length) ==
    [ok  |-> length % BLOCKSIZE = 0,
     eng |-> [e EXCEPT !.length = length, !.state = mid]]

\* midstate_funcs!::from_midstate: ok = FALSE is the panic of assert_eq!
from_midstate(e, mid, length) ==
    IF length % BLOCKSIZE # 0
    THEN [ok |-> FALSE, eng |-> e]
    ELSE [ok |-> TRUE, eng |-> [e EXCEPT !.length = length, !.state = mid]]

\* the zero bytes pushed by `while len % BLOCKSIZE != BLOCKSIZE - LEN_BYTES`
\* onto a vector of n bytes
PadZeros(n) == Zeros((2 * BLOCKSIZE - LEN_BYTES - (n % BLOCKSIZE)) % BLOCKSIZE)

\* Ripemd160::pad_fbuffer: self.buffer is the whole [u8; BLOCKSIZE] array
pad_fbuffer(e) ==
    LET data == e.buffer \o <<128>>
    IN  data \o PadZeros(Len(data)) \o u64_to_le_bytes(e.length)

RECURSIVE ProcessBlocks(_, _)
ProcessBlocks(state, blocks) ==
    IF Len(blocks) = 0 THEN state
    ELSE ProcessBlocks(process_block(state, Head(blocks)), Tail(blocks))

\* Ripemd160::finalise: the engine afterwards and the digest returned
Finalised(e, st) ==
    [eng |-> [e EXCEPT !.state = st],
     digest |-> Flatten([n \in 1..5 |-> to_le_bytes(st[n])])]

finalise(e) ==
    Finalised(e, ProcessBlocks(e.state, from_message(pad_fbuffer(e), BLOCKSIZE)))

\* ------------------------------------------------------------------------
\* sha2.rs: the Vec-buffered engine Sha256m
\* ------------------------------------------------------------------------

Sha256m_new == [buffer |-> <<>>, length |-> 0, state |-> SHA256_INITIAL_CONSTANTS]

\* the loop `while self.buffer.len() >= Self::BLOCKSIZE`
RECURSIVE Sha256m_drain(_)

Sha256m_drainNext(ne) == IF ne = ne THEN Sha256m_drain(ne) ELSE ne

Sha256m_drain(e) ==
    IF Len(e.buffer) < BLOCKSIZE THEN e
    ELSE Sha256m_drainNext(
            [e EXCEPT !.state = sha2_process_block(e.state,
                          from_message(SubSeq(e.buffer, 1, BLOCKSIZE), BLOCKSIZE)[1]),
                      !.buffer = SubSeq(e.buffer, BLOCKSIZE + 1, Len(e.buffer))])

\* an input that leaves whole blocks in the buffer
Sha256m_input_lazy(e, data) ==
    [e EXCEPT !.buffer = e.buffer \o data, !.length = e.length + Len(data) * 8]

Sha256m_input(e, data) ==
    Sha256m_drain([e EXCEPT !.buffer = e.buffer \o data,
                            !.length = e.length + Len(data) * 8])

Sha256m_reset(e) == [buffer |-> <<>>, length |-> 0, state |-> SHA256_INITIAL_CONSTANTS]

\* state.iter().rev().skip(0).flat_map(to_le_bytes).rev()
Sha256m_midstate(e) ==
    Rev(Flatten([n \in 1..8 |-> to_le_bytes(Rev(e.state)[n])]))

\* chunks(4), transmute (read on a little-endian host), to_be()
Sha256m_from_midstate(e, mid) ==
    [e EXCEPT !.state =
        [n \in 1..8 |-> swap_bytes(from_be_bytes(Rev(SubSeq(mid, 4 * n - 3, 4 * n))))]]

\* sha2_pad_fbuffer!: self.buffer is the Vec of pending bytes, length in bits
Sha256m_pad_fbuffer(e) ==
    LET data == e.buffer \o <<128>>
    IN  data \o PadZeros(Len(data)) \o u64_to_be_bytes(e.length)

RECURSIVE Sha2ProcessBlocks(_, _)
Sha2ProcessBlocks(state, blocks) ==
    IF Len(blocks) = 0 THEN state
    ELSE Sha2ProcessBlocks(sha2_process_block(state, Head(blocks)), Tail(blocks))

Sha256m_finalised(ne) == [eng |-> ne, digest |-> Sha256m_midstate(ne)]

Sha256m_finalise(e) ==
    Sha256m_finalised([e EXCEPT !.state = Sha2ProcessBlocks(e.state,
                          from_message(Sha256m_pad_fbuffer(e), BLOCKSIZE))])

\* ------------------------------------------------------------------------
\* sha2.rs: the whole-message engines (Sha224, Sha256, Sha384, Sha512)
\* ------------------------------------------------------------------------

\* Sha256 { input: vec![] }
Sha256_new == [input |-> <<>>]

\* self.input.extend_from_slice(data)
Sha256_input(e, data) == [input |-> e.input \o data]

\* a padding that appends the length in bytes
Sha256_pad_input_bytes(e) ==
    LET data == e.input \o <<128>>
    IN  data \o PadZeros(Len(data)) \o u64_to_be_bytes(Len(e.input))

\* sha2_input_padding!(u64, SHA256_BLOCKSIZE)
Sha256_pad_input(e) ==
    LET data == e.input \o <<128>>
    IN  data \o PadZeros(Len(data)) \o u64_to_be_bytes(Len(e.input) * 8)

\* reg.to_le_bytes() of a register written as 16-bit limbs, most significant
\* limb first (two limbs for u32, four for u64)
WordLeBytes(reg) ==
    Flatten([k \in 1..Len(reg) |->
                <<reg[Len(reg) + 1 - k] % 256, reg[Len(reg) + 1 - k] \div 256>>])

\* the argument of skip: (state bytes - digest bytes) / word bytes
Sha2Skip(word_bytes, digest_size) == (8 * word_bytes - digest_size) \div word_bytes

\* a digest extraction that skips the leading registers
DigestBytesSkipFirst(state, skip) ==
    Rev(Flatten([n \in 1..(Len(state) - skip) |-> WordLeBytes(Rev(state)[n])]))

\* state.read().iter().rev().skip(skip).flat_map(|reg| reg.to_le_bytes()).rev()
DigestBytes(state, skip) ==
    Rev(Flatten([n \in 1..(Len(state) - skip) |-> WordLeBytes(Rev(state)[skip + n])]))

\* .try_into().expect("Bad digest"): ok = FALSE is the panic
TryIntoDigest(bytes, digest_size) ==
    [ok |-> Len(bytes) = digest_size, digest |-> bytes]

\* impl_hash_engine_sha2!($name, $digest_size, $blocksize, $word_ty, ..): the
\* digest size and the bytes of a word of each hash function; Sha256m is the
\* block-at-a-time engine, whose midstate makes the same extraction for 32 bytes
Sha2Kinds == {"Sha224", "Sha256", "Sha384", "Sha512", "Sha256m"}

DigestSize(k) ==
    CASE k = "Sha224" -> 28
      [] k \in {"Sha256", "Sha256m"} -> 32
      [] k = "Sha384" -> 48
      [] k = "Sha512" -> 64

WordBytes(k) == IF k \in {"Sha384", "Sha512"} THEN 8 ELSE 4

\* the end of hash(): the digest taken from the registers
Sha2ExtractDigest(k, state) ==
    IF k = "Sha256m"
    THEN TryIntoDigest(Sha256m_midstate([state |-> state]), DigestSize(k))
    ELSE TryIntoDigest(DigestBytes(state, Sha2Skip(WordBytes(k), DigestSize(k))),
                       DigestSize(k))

\* reg.to_be_bytes() of a register written as 16-bit limbs
WordBeBytes(reg) ==
    Flatten([k \in 1..Len(reg) |-> <<reg[k] \div 256, reg[k] % 256>>])

\* Sha224::hash of sha224.rs: &state.read()[0..n], each word to_be_bytes
FirstRegistersBe(state, n) == Flatten([i \in 1..n |-> WordBeBytes(state[i])])

\* impl_hash_engine_sha2!(Sha256, 32, SHA256_BLOCKSIZE, u32, ..)::hash
Sha256_hash(e) ==
    DigestBytes(Sha2ProcessBlocks(SHA256_INITIAL_CONSTANTS,
                    from_message(Sha256_pad_input(e), BLOCKSIZE)),
                Sha2Skip(4, 32))


\* ------------------------------------------------------------------------
\* hmac.rs: Hmac<T>, with T the array-buffered engine Ripemd160
\* ------------------------------------------------------------------------

OPAD == 92     \* 0x5c

IPAD == 54     \* 0x36

\* `if key.len() > BLOCKSIZE`: the key is replaced by the digest of a default
\* engine given the key
HashLongKey(key) ==
    IF Len(key) > BLOCKSIZE THEN finalise(input(Ripemd160Default, key)).digest
    ELSE key

\* a short key left as it is
PadShortKeyNot(key) == key

\* `if key.len() < BLOCKSIZE`: padding.resize(BLOCKSIZE - key.len(), 0x00)
PadShortKey(key) ==
    IF Len(key) < BLOCKSIZE THEN key \o Zeros(BLOCKSIZE - Len(key)) ELSE key

\* the primed key
PrimeKey(key) == PadShortKey(HashLongKey(key))

\* key.iter().map(|x| x ^ pad).collect()
XorPad(key, pad) == [k \in 1..Len(key) |-> Xor8(key[k], pad)]

\* the three assert_eq! of new_with_key (the first is also in
\* HmacMidState::default), on the primed key
KeyAsserts(key) ==
    /\ Len(key) = BLOCKSIZE
    /\ Len(XorPad(key, OPAD)) = BLOCKSIZE
    /\ Len(XorPad(key, IPAD)) = BLOCKSIZE

\* the midstate of a default engine given the padded key
PadMidstate(key, pad) == midstate(input(Ripemd160Default, XorPad(key, pad)))

\* HmacMidState::default(): the key is the empty byte array
HmacMidStateDefault ==
    [inner |-> PadMidstate(PrimeKey(<<>>), IPAD),
     outer |-> PadMidstate(PrimeKey(<<>>), OPAD)]

\* Hmac::default()
HmacDefault ==
    [inner      |-> Ripemd160Default,
     outer      |-> Ripemd160Default,
     istate     |-> HmacMidStateDefault,
     msg_buffer |-> <<>>]

\* Hmac::midstate
Hmac_midstate(e) == [inner |-> midstate(e.inner), outer |-> midstate(e.outer)]

\* `engine.istate = HmacMidState { .. }` of new_with_key
StoreIstate(e) == [e EXCEPT !.istate = Hmac_midstate(e)]

\* the ipad key given to outer and the opad key to inner
KeyEnginesSwapped(e, key) ==
    StoreIstate([e EXCEPT !.inner = input(e.inner, XorPad(key, OPAD)),
                          !.outer = input(e.outer, XorPad(key, IPAD))])

\* new_with_key from `engine.inner.input(ipad_key)` on, key the primed key
KeyEngines(e, key) ==
    StoreIstate([e EXCEPT !.inner = input(e.inner, XorPad(key, IPAD)),
                          !.outer = input(e.outer, XorPad(key, OPAD))])

\* new_with_key after priming: ok = FALSE is the panic of an assert_eq!
NewWithPrimedKey(key) ==
    IF KeyAsserts(key)
    THEN [ok |-> TRUE, eng |-> KeyEngines(HmacDefault, key)]
    ELSE [ok |-> FALSE, eng |-> HmacDefault]

\* Hmac::new_with_key
new_with_key(key) == NewWithPrimedKey(PrimeKey(key))

\* Hmac::input
Hmac_input(e, data) == [e EXCEPT !.inner = input(e.inner, data)]

\* a from_midstate that also caches the midstates it installs
Hmac_from_midstate_caches(e, mid, length) ==
    IF ~from_midstate(e.inner, mid.inner, length).ok
    THEN [ok |-> FALSE, eng |-> e]
    ELSE [ok |-> from_midstate(e.outer, mid.outer, length).ok,
          eng |-> [e EXCEPT !.inner = from_midstate(e.inner, mid.inner, length).eng,
                            !.outer = from_midstate(e.outer, mid.outer, length).eng,
                            !.istate = mid]]

\* Hmac::from_midstate: the inner engine's assertion panics before the outer
\* engine is touched
Hmac_from_midstate(e, mid, length) ==
    IF ~from_midstate(e.inner, mid.inner, length).ok
    THEN [ok |-> FALSE, eng |-> e]
    ELSE IF ~from_midstate(e.outer, mid.outer, length).ok
    THEN [ok |-> FALSE,
          eng |-> [e EXCEPT !.inner = from_midstate(e.inner, mid.inner, length).eng]]
    ELSE [ok |-> TRUE,
          eng |-> [e EXCEPT !.inner = from_midstate(e.inner, mid.inner, length).eng,
                            !.outer = from_midstate(e.outer, mid.outer, length).eng]]

\* Hmac::reset
Hmac_reset(e) ==
    [e EXCEPT !.inner = from_midstate(e.inner, e.istate.inner, BLOCKSIZE).eng,
              !.outer = from_midstate(e.outer, e.istate.outer, BLOCKSIZE).eng,
              !.msg_buffer = <<>>]

\* `self.outer.finalise()`, fo what it returns
HmacFinalised(e, inner, fo) ==
    [eng |-> [e EXCEPT !.inner = inner, !.outer = fo.eng], digest |-> fo.digest]

\* `self.outer.input(self.inner.finalise())`, fi what inner.finalise() returns
HmacOuter(e, fi) == HmacFinalised(e, fi.eng, finalise(input(e.outer, fi.digest)))

\* Hmac::finalise
Hmac_finalise(e) == HmacOuter(e, finalise(e.inner))


\* ------------------------------------------------------------------------
\* pbkdf2.rs: PBKDF2<T>, with T = Hmac<Ripemd160>
\* ------------------------------------------------------------------------

\* PBKDF2::default()
PBKDF2_default == [password |-> <<>>, salt |-> <<>>, iter |-> 1]

\* PBKDF2::new(salt)
PBKDF2_new(salt) == [password |-> <<>>, salt |-> salt, iter |-> 1]

\* PBKDF2::iter
PBKDF2_iter(e, count) == [e EXCEPT !.iter = count]

\* PBKDF2::input_salt
PBKDF2_input_salt(e, salt) == [e EXCEPT !.salt = e.salt \o salt]

\* PBKDF2::input
PBKDF2_input(e, data) == [e EXCEPT !.password = e.password \o data]

\* a reset that keeps the salt
PBKDF2_reset_keeps_salt(e) == [e EXCEPT !.password = <<>>, !.iter = 1]

\* PBKDF2::reset
PBKDF2_reset(e) == [password |-> <<>>, salt |-> <<>>, iter |-> 1]

\* the first entry of u with the counter as little-endian bytes
FirstULittleEndian(password, salt) ==
    Hmac_finalise(Hmac_input(Hmac_input(new_with_key(password).eng, salt),
                             to_le_bytes(<<0, 1>>))).digest

\* the first entry of u: prf keyed with the password, given the salt and then
\* 1u32.to_be_bytes()
FirstU(password, salt) ==
    Hmac_finalise(Hmac_input(Hmac_input(new_with_key(password).eng, salt),
                             to_be_bytes(<<0, 1>>))).digest

\* one pass of `for i in 1..self.iter`: a new prf keyed with the password,
\* given the previous entry
NextU(password, prev) ==
    Hmac_finalise(Hmac_input(new_with_key(password).eng, prev)).digest

\* the loop `for i in 1..self.iter`; u[i - 1] of the source is u[i] here
RECURSIVE PushU(_, _, _, _)

PushUNext(nu, password, i, iter) ==
    IF nu = nu THEN PushU(nu, password, i + 1, iter) ELSE nu

PushU(u, password, i, iter) ==
    IF i >= iter THEN u
    ELSE PushUNext(Append(u, NextU(password, u[i])), password, i, iter)

\* zip, map(|(x, y)| x ^ y), collect
XorBytes(x, y) == [k \in 1..Min(Len(x), Len(y)) |-> Xor8(x[k], y[k])]

\* the loop `while u.len() != 1`: u[0] = u[0] ^ u[1]; u.remove(1)
RECURSIVE XorFold(_)
XorFold(u) ==
    IF Len(u) = 1 THEN u
    ELSE XorFold(<<XorBytes(u[1], u[2])>> \o SubSeq(u, 3, Len(u)))

\* PBKDF2::f_compression
f_compression(e) == XorFold(PushU(<<FirstU(e.password, e.salt)>>, e.password, 1, e.iter))[1]

\* a finalise that leaves a reset builder behind
PBKDF2_finalise_consumes(e) ==
    [eng |-> [password |-> <<>>, salt |-> <<>>, iter |-> 1],
     digest |-> f_compression(e)]

\* PBKDF2::finalise
PBKDF2_finalise(e) == [eng |-> e, digest |-> f_compression(e)]

\* ------------------------------------------------------------------------
\* The two hash engines behind one interface
\* ------------------------------------------------------------------------

EngDefault(k) == IF k = "Ripemd160" THEN Ripemd160Default ELSE Sha256m_new

EngInput(k, e, data) ==
    IF k = "Ripemd160" THEN input(e, data) ELSE Sha256m_input(e, data)

EngReset(k, e) == IF k = "Ripemd160" THEN reset(e) ELSE Sha256m_reset(e)

EngMidstate(k, e) == IF k = "Ripemd160" THEN midstate(e) ELSE Sha256m_midstate(e)

\* Sha256m::from_midstate takes no length and has no assertion
EngFromMidstate(k, e, mid, length) ==
    IF k = "Ripemd160" THEN from_midstate(e, mid, length)
    ELSE [ok |-> TRUE, eng |-> Sha256m_from_midstate(e, mid)]

EngFinalise(k, e) == IF k = "Ripemd160" THEN finalise(e) ELSE Sha256m_finalise(e)

\* the length field in bytes: Sha256m counts bits
EngLength(k, e) == IF k = "Ripemd160" THEN e.length ELSE e.length \div 8

\* a freshly constructed engine given m in one input call
OneInput(k, m) == EngInput(k, EngDefault(k), m)

\* the digest of m: one input call on a freshly constructed engine, finalise
Hash(k, m) == EngFinalise(k, OneInput(k, m)).digest

\* ------------------------------------------------------------------------
\* State
\* ------------------------------------------------------------------------

VARIABLES
    kind,   \* what the program constructed: "Ripemd160", "Sha256m", "Hmac"
            \* or "PBKDF2"
    eng,    \* the object: its fields
    key,    \* Hmac: the key its engines stand for (cur) and the key it was
            \* constructed with (own)
    msg,    \* the bytes the caller means the object to have absorbed
    mode,   \* how the object got here
            \*   engines: "fresh", "reset", "restored_fresh", "restored_used"
            \*   Hmac: "default", "keyed", "transferred_fresh",
            \*         "transferred_used"; after reset, "reset" (of a keyed
            \*         engine that was finalised), "reset_early" (of a keyed
            \*         engine not finalised), "reset_default"
            \*   PBKDF2: "builder"
            \*   "other" when the calls made fit none of these
    fin,    \* finalise was called since the object was last (re)initialised
    snap,   \* the snapshot the caller keeps: midstate() and what it covers
    dig,    \* the digest returned by the last call, <<>> if it returned none
    last,   \* the last call: its name, its length argument, whether it returned
    nin,    \* number of input calls made
    want    \* PBKDF2: the salt and the iteration count that the calls made
            \* since construction or the last reset ask for (the password
            \* they ask for is msg)

vars == <<kind, eng, key, msg, mode, fin, snap, dig, last, nin, want>>

\* bound on the number of input calls of one run
MaxInputs == 2

\* a run resets or restores an object it constructed once: the modes in which
\* reset and from_midstate are called
Constructed == {"fresh", "default", "keyed"}

EngineKinds == {"Ripemd160", "Sha256m"}

\* the byte strings handed to input: empty, a partial block, and two whole
\* blocks that differ
Chunks == {<<>>, Fill(97, 1), Fill(99, 64), Fill(100, 64)}

NoKey == [cur |-> <<>>, own |-> <<>>]

NoSnap ==
    [taken |-> FALSE, valid |-> FALSE, mid |-> <<>>, len |-> 0, msg |-> <<>>,
     key |-> <<>>, eng |-> <<>>]

NoWant == [salt |-> <<>>, iter |-> 1]

Call(op, arg, ok) == [op |-> op, arg |-> arg, ok |-> ok]

\* what the constructor of each kind returns: Ripemd160::default(),
\* Sha256m::new(), Hmac::default(), PBKDF2::default()
Construct(k) ==
    CASE k = "Ripemd160" -> Ripemd160Default
      [] k = "Sha256m"   -> Sha256m_new
      [] k = "Hmac"      -> HmacDefault
      [] k = "PBKDF2"    -> PBKDF2_default

ModeConstructed(k) ==
    CASE k \in EngineKinds -> "fresh"
      [] k = "Hmac"        -> "default"
      [] k = "PBKDF2"      -> "builder"

InitKind(kinds) ==
    /\ kind \in kinds
    /\ eng = Construct(kind)
    /\ key = NoKey
    /\ msg = <<>>
    /\ mode = ModeConstructed(kind)
    /\ fin = FALSE
    /\ snap = NoSnap
    /\ dig = <<>>
    /\ last = Call("new", 0, TRUE)
    /\ nin = 0
    /\ want = NoWant

\* ------------------------------------------------------------------------
\* The hash engines
\* ------------------------------------------------------------------------

\* the program drops its engine and constructs another
New ==
    /\ kind \in EngineKinds
    /\ eng' = EngDefault(kind)
    /\ msg' = <<>>
    /\ mode' = "fresh"
    /\ fin' = FALSE
    /\ dig' = <<>>
    /\ last' = Call("new", 0, TRUE)
    /\ UNCHANGED <<kind, want, key, snap, nin>>

\* a run feeds an engine until it takes the digest, then resets or restores it
Input(data) ==
    /\ kind \in EngineKinds
    /\ nin < MaxInputs
    /\ ~fin
    /\ eng' = EngInput(kind, eng, data)
    /\ msg' = IF mode = "other" THEN <<>> ELSE msg \o data
    /\ nin' = nin + 1
    /\ dig' = <<>>
    /\ last' = Call("input", Len(data), TRUE)
    /\ UNCHANGED <<kind, want, key, mode, fin, snap>>

\* reset is called on an engine in any condition
Reset ==
    /\ kind \in EngineKinds
    /\ eng' = EngReset(kind, eng)
    /\ msg' = <<>>
    /\ mode' = "reset"
    /\ fin' = FALSE
    /\ dig' = <<>>
    /\ last' = Call("reset", 0, TRUE)
    /\ UNCHANGED <<kind, want, key, snap, nin>>

\* midstate(): the caller keeps the value with the number of bytes it has fed
\* and the engine E it came from; a run takes one snapshot
Midstate ==
    /\ kind \in EngineKinds
    /\ ~snap.taken
    /\ snap' = [taken |-> TRUE,
                valid |-> mode \in {"fresh", "reset"} /\ ~fin,
                mid   |-> EngMidstate(kind, eng),
                len   |-> Len(msg),
                msg   |-> msg,
                key   |-> <<>>,
                eng   |-> eng]
    /\ dig' = <<>>
    /\ last' = Call("midstate", 0, TRUE)
    /\ UNCHANGED <<kind, want, eng, key, msg, mode, fin, nin>>

\* the lengths a caller passes with a snapshot: the recorded byte count, the
\* count rounded down to whole blocks, and one that is no whole number of blocks
MidstateLengths == {snap.len, (snap.len \div BLOCKSIZE) * BLOCKSIZE, 1}

\* from_midstate(snap.mid, length) restores a prefix of snap.msg when the
\* snapshot was taken from an engine that had only absorbed input and length is
\* the whole-block part of what it had absorbed
Restores(length) ==
    /\ snap.valid
    /\ length % BLOCKSIZE = 0
    /\ length = (snap.len \div BLOCKSIZE) * BLOCKSIZE

FromMidstate(length) ==
    /\ kind \in EngineKinds
    /\ snap.taken
    /\ mode \in Constructed
    /\ length \in MidstateLengths
    /\ \E r \in {EngFromMidstate(kind, eng, snap.mid, length)} :
           /\ eng' = r.eng
           /\ last' = Call("from_midstate", length, r.ok)
           /\ IF r.ok
              THEN /\ mode' = IF ~Restores(length) THEN "other"
                              ELSE IF mode = "fresh" /\ msg = <<>> /\ ~fin
                              THEN "restored_fresh"
                              ELSE "restored_used"
                   /\ msg' = IF Restores(length) THEN SubSeq(snap.msg, 1, length)
                             ELSE <<>>
                   /\ fin' = FALSE
              ELSE UNCHANGED <<mode, msg, fin>>
    /\ dig' = <<>>
    /\ UNCHANGED <<kind, want, key, snap, nin>>

Finalise ==
    /\ kind \in EngineKinds
    /\ ~fin
    /\ \E r \in {EngFinalise(kind, eng)} :
           /\ eng' = r.eng
           /\ dig' = r.digest
    /\ fin' = TRUE
    /\ last' = Call("finalise", 0, TRUE)
    /\ UNCHANGED <<kind, want, key, msg, mode, snap, nin>>

NextEngine ==
    \/ New
    \/ \E data \in Chunks : Input(data)
    \/ Reset
    \/ Midstate
    \/ \E length \in 0..(MaxInputs * BLOCKSIZE) : FromMidstate(length)
    \/ Finalise

InitEngine == InitKind(EngineKinds)

SpecEngine == InitEngine /\ [][NextEngine]_vars

\* ------------------------------------------------------------------------
\* The HMAC engine
\* ------------------------------------------------------------------------

\* the keys handed to new_with_key: shorter than a block ("key"), exactly a
\* block, longer than a block
Keys == {<<107, 101, 121>>, Fill(75, 64), Fill(76, 70)}

\* the byte strings handed to Hmac::input: a partial block, a whole block
HChunks == {Fill(97, 1), Fill(99, 64)}

\* the program drops its engine and constructs another, before it feeds any
HDefault ==
    /\ kind = "Hmac"
    /\ nin = 0
    /\ eng' = HmacDefault
    /\ key' = NoKey
    /\ msg' = <<>>
    /\ mode' = "default"
    /\ fin' = FALSE
    /\ dig' = <<>>
    /\ last' = Call("default", 0, TRUE)
    /\ UNCHANGED <<kind, want, snap, nin>>

HNewWithKey(k) ==
    /\ kind = "Hmac"
    /\ nin = 0
    /\ \E r \in {new_with_key(k)} :
           /\ eng' = r.eng
           /\ last' = Call("new_with_key", Len(k), r.ok)
    /\ key' = [cur |-> k, own |-> k]
    /\ msg' = <<>>
    /\ mode' = "keyed"
    /\ fin' = FALSE
    /\ dig' = <<>>
    /\ UNCHANGED <<kind, want, snap, nin>>

HInput(data) ==
    /\ kind = "Hmac"
    /\ nin < MaxInputs
    /\ ~fin
    /\ eng' = Hmac_input(eng, data)
    /\ msg' = IF mode = "other" THEN <<>> ELSE msg \o data
    /\ nin' = nin + 1
    /\ dig' = <<>>
    /\ last' = Call("input", Len(data), TRUE)
    /\ UNCHANGED <<kind, want, key, mode, fin, snap>>

HReset ==
    /\ kind = "Hmac"
    /\ mode \in Constructed
    /\ eng' = Hmac_reset(eng)
    /\ key' = [key EXCEPT !.cur = key.own]
    /\ msg' = <<>>
    /\ mode' = IF mode # "keyed" THEN "reset_default"
               ELSE IF fin THEN "reset" ELSE "reset_early"
    /\ fin' = FALSE
    /\ dig' = <<>>
    /\ last' = Call("reset", 0, TRUE)
    /\ UNCHANGED <<kind, want, snap, nin>>

\* midstate() of an engine just built by new_with_key: the caller keeps the
\* value with the key it stands for; inner and outer have each absorbed the
\* one block of the padded key
HMidstate ==
    /\ kind = "Hmac"
    /\ ~snap.taken
    /\ mode = "keyed" /\ msg = <<>> /\ ~fin
    /\ snap' = [taken |-> TRUE,
                valid |-> TRUE,
                mid   |-> Hmac_midstate(eng),
                len   |-> BLOCKSIZE,
                msg   |-> <<>>,
                key   |-> key.cur,
                eng   |-> eng]
    /\ dig' = <<>>
    /\ last' = Call("midstate", 0, TRUE)
    /\ UNCHANGED <<kind, want, eng, key, msg, mode, fin, nin>>

HFromMidstate(length) ==
    /\ kind = "Hmac"
    /\ snap.taken
    /\ mode \in Constructed
    /\ length \in MidstateLengths
    /\ \E r \in {Hmac_from_midstate(eng, snap.mid, length)} :
           /\ eng' = r.eng
           /\ last' = Call("from_midstate", length, r.ok)
           /\ IF r.ok
              THEN /\ mode' = IF ~Restores(length) THEN "other"
                              ELSE IF mode = "default" /\ msg = <<>> /\ ~fin
                              THEN "transferred_fresh"
                              ELSE "transferred_used"
                   /\ key' = [key EXCEPT !.cur = snap.key]
                   /\ msg' = <<>>
                   /\ fin' = FALSE
              ELSE UNCHANGED <<mode, key, msg, fin>>
    /\ dig' = <<>>
    /\ UNCHANGED <<kind, want, snap, nin>>

HFinalise ==
    /\ kind = "Hmac"
    /\ ~fin
    /\ \E r \in {Hmac_finalise(eng)} :
           /\ eng' = r.eng
           /\ dig' = r.digest
    /\ fin' = TRUE
    /\ last' = Call("finalise", 0, TRUE)
    /\ UNCHANGED <<kind, want, key, msg, mode, snap, nin>>

NextHmac ==
    \/ HDefault
    \/ \E k \in Keys : HNewWithKey(k)
    \/ \E data \in HChunks : HInput(data)
    \/ HReset
    \/ HMidstate
    \/ \E length \in 0..(MaxInputs * BLOCKSIZE) : HFromMidstate(length)
    \/ HFinalise

InitHmac == InitKind({"Hmac"})

SpecHmac == InitHmac /\ [][NextHmac]_vars

\* ------------------------------------------------------------------------
\* The PBKDF2 builder
\* ------------------------------------------------------------------------

\* bound on the iteration count handed to iter
MaxIter == 3

\* the byte strings handed to PBKDF2::input
Passwords == {<<>>, <<112, 119>>}

\* the byte strings handed to PBKDF2::new and input_salt
Salts == {<<>>, <<115>>}

\* the program drops its builder and constructs another, before it feeds any
PNew(salt) ==
    /\ kind = "PBKDF2"
    /\ nin = 0
    /\ eng' = PBKDF2_new(salt)
    /\ msg' = <<>>
    /\ want' = [salt |-> salt, iter |-> 1]
    /\ dig' = <<>>
    /\ last' = Call("new", Len(salt), TRUE)
    /\ UNCHANGED <<kind, key, mode, fin, snap, nin>>

PIter(count) ==
    /\ kind = "PBKDF2"
    /\ eng' = PBKDF2_iter(eng, count)
    /\ want' = [want EXCEPT !.iter = count]
    /\ dig' = <<>>
    /\ last' = Call("iter", count, TRUE)
    /\ UNCHANGED <<kind, key, msg, mode, fin, snap, nin>>

PInputSalt(salt) ==
    /\ kind = "PBKDF2"
    /\ nin < MaxInputs
    /\ eng' = PBKDF2_input_salt(eng, salt)
    /\ want' = [want EXCEPT !.salt = want.salt \o salt]
    /\ nin' = nin + 1
    /\ dig' = <<>>
    /\ last' = Call("input_salt", Len(salt), TRUE)
    /\ UNCHANGED <<kind, key, msg, mode, fin, snap>>

PInput(data) ==
    /\ kind = "PBKDF2"
    /\ nin < MaxInputs
    /\ eng' = PBKDF2_input(eng, data)
    /\ msg' = msg \o data
    /\ nin' = nin + 1
    /\ dig' = <<>>
    /\ last' = Call("input", Len(data), TRUE)
    /\ UNCHANGED <<kind, key, mode, fin, snap, want>>

PReset ==
    /\ kind = "PBKDF2"
    /\ eng' = PBKDF2_reset(eng)
    /\ msg' = <<>>
    /\ want' = NoWant
    /\ dig' = <<>>
    /\ last' = Call("reset", 0, TRUE)
    /\ UNCHANGED <<kind, key, mode, fin, snap, nin>>

PFinalise ==
    /\ kind = "PBKDF2"
    /\ \E r \in {PBKDF2_finalise(eng)} :
           /\ eng' = r.eng
           /\ dig' = r.digest
    /\ last' = Call("finalise", 0, TRUE)
    /\ UNCHANGED <<kind, key, msg, mode, fin, snap, nin, want>>

NextPbkdf2 ==
    \/ \E salt \in Salts : PNew(salt)
    \/ \E count \in 0..MaxIter : PIter(count)
    \/ \E salt \in Salts : PInputSalt(salt)
    \/ \E data \in Passwords : PInput(data)
    \/ PReset
    \/ PFinalise

InitPbkdf2 == InitKind({"PBKDF2"})

SpecPbkdf2 == InitPbkdf2 /\ [][NextPbkdf2]_vars

\* ------------------------------------------------------------------------
\* The length counter at the top of its range.  Here eng holds the length
\* field alone, a u64 written as four 16-bit limbs, most significant first;
\* the registers and the buffer play no part in what `+=` does to it.
\* ------------------------------------------------------------------------

\* x + n on limbs, for 0 <= n < 2^16: the sum modulo 2^64 and whether the
\* true sum is 2^64 or more
U64Add(x, n) ==
    LET d == x[4] + n
        c == x[3] + (d \div 65536)
        b == x[2] + (c \div 65536)
        a == x[1] + (b \div 65536)
    IN  [value    |-> <<a % 65536, b % 65536, c % 65536, d % 65536>>,
         overflow |-> a >= 65536]

\* `+=` on a u64: a debug build panics on overflow (ok = FALSE, the field not
\* written), a release build wraps
U64AddAssign(build, x, n) ==
    IF U64Add(x, n).overflow /\ build = "debug"
    THEN [ok |-> FALSE, length |-> x]
    ELSE [ok |-> TRUE, length |-> U64Add(x, n).value]

\* input_func!: the passes of `while input.len() != 0` as the length field
\* sees them, n the bytes still to write
RECURSIVE WideInput(_, _, _)
WideInput(build, length, n) ==
    IF n = 0 THEN [ok |-> TRUE, length |-> length]
    ELSE IF ~U64AddAssign(build, length,
                          Min(BLOCKSIZE - (length[4] % BLOCKSIZE), n)).ok
    THEN [ok |-> FALSE, length |-> length]
    ELSE WideInput(build,
                   U64AddAssign(build, length,
                       Min(BLOCKSIZE - (length[4] % BLOCKSIZE), n)).length,
                   n - Min(BLOCKSIZE - (length[4] % BLOCKSIZE), n))

\* Sha256m::input: self.length += (data.as_ref().len() * 8) as u64
Sha256m_WideInput(build, length, n) == U64AddAssign(build, length, n * 8)

\* the builds of the library
Builds == {"debug", "release"}

U64Zero == <<0, 0, 0, 0>>

\* byte counts a whole number of blocks below 2^61 and below 2^64, as limbs
BytesBelow2p61(n) == <<8191, 65535, 65535, 65536 - n>>

BytesBelow2p64(n) == <<65535, 65535, 65535, 65536 - n>>

\* the length field of an engine of kind k that has absorbed the bytes
LengthField(k, bytes) ==
    IF k = "Ripemd160" THEN bytes
    ELSE <<((bytes[1] * 8) % 65536) + (bytes[2] \div 8192),
           ((bytes[2] * 8) % 65536) + (bytes[3] \div 8192),
           ((bytes[3] * 8) % 65536) + (bytes[4] \div 8192),
           (bytes[4] * 8) % 65536>>

\* the byte counts the engines start from: none, and one or two blocks below
\* 2^61 bytes; the array-buffered engine, whose field counts bytes, also one
\* or two blocks below 2^64
StartBytes(k) ==
    {U64Zero, BytesBelow2p61(BLOCKSIZE), BytesBelow2p61(2 * BLOCKSIZE)}
    \cup (IF k = "Ripemd160"
          THEN {BytesBelow2p64(BLOCKSIZE), BytesBelow2p64(2 * BLOCKSIZE)}
          ELSE {})

\* the number of bytes of one input call
InputSizes == {0, 1, 63, 64, 65}

\* bound on the number of input calls of one run of the counter
MaxLengthInputs == 3

InitLength ==
    /\ kind \in EngineKinds
    /\ \E bytes \in StartBytes(kind) : eng = [length |-> LengthField(kind, bytes)]
    /\ key = NoKey
    /\ msg = <<>>
    /\ mode = "fresh"
    /\ fin = FALSE
    /\ snap = NoSnap
    /\ dig = <<>>
    /\ last = Call("new", 0, TRUE)
    /\ nin = 0
    /\ want = NoWant

\* input of n bytes; once the field has wrapped or the call has panicked the
\* run of the counter ends (mode "other")
LInput(n, build) ==
    /\ kind \in EngineKinds
    /\ mode # "other"
    /\ nin < MaxLengthInputs
    /\ \E r \in {IF kind = "Ripemd160" THEN WideInput(build, eng.length, n)
                 ELSE Sha256m_WideInput(build, eng.length, n)} :
           /\ eng' = [length |-> r.length]
           /\ last' = Call("input", n, r.ok)
           /\ mode' = IF r.ok /\ ~U64Add(eng.length,
                                         IF kind = "Ripemd160" THEN n ELSE n * 8).overflow
                      THEN mode ELSE "other"
    /\ nin' = nin + 1
    /\ UNCHANGED <<kind, key, msg, fin, snap, dig, want>>

\* reset: self.length = 0
LReset ==
    /\ kind \in EngineKinds
    /\ last.op # "reset"
    /\ eng' = [length |-> U64Zero]
    /\ mode' = "reset"
    /\ last' = Call("reset", 0, TRUE)
    /\ UNCHANGED <<kind, key, msg, fin, snap, dig, nin, want>>

NextLength ==
    \/ \E n \in InputSizes, build \in Builds : LInput(n, build)
    \/ LReset

SpecLength == InitLength /\ [][NextLength]_vars

\* ------------------------------------------------------------------------
\* SHA-256 twice: a whole-message engine (eng.whole) and a block-at-a-time
\* engine (eng.stream) given the same bytes
\* ------------------------------------------------------------------------

\* the byte strings handed to both engines: one byte, and what makes the
\* messages of 55, 56, 64 and 112 bytes
ShaChunks == {Fill(97, 1), Fill(98, 55), Fill(99, 56), Fill(100, 64)}

\* bound on the number of input calls of one run of the two engines
MaxShaInputs == 3

NoDigests == [whole |-> <<>>, stream |-> <<>>]

InitSha256 ==
    /\ kind = "Sha256"
    /\ eng = [whole |-> Sha256_new, stream |-> Sha256m_new]
    /\ key = NoKey
    /\ msg = <<>>
    /\ mode = "fresh"
    /\ fin = FALSE
    /\ snap = NoSnap
    /\ dig = NoDigests
    /\ last = Call("new", 0, TRUE)
    /\ nin = 0
    /\ want = NoWant

\* the program drops both engines and constructs them again
ShaNew ==
    /\ kind = "Sha256"
    /\ last.op # "new"
    /\ eng' = [whole |-> Sha256_new, stream |-> Sha256m_new]
    /\ msg' = <<>>
    /\ fin' = FALSE
    /\ dig' = NoDigests
    /\ last' = Call("new", 0, TRUE)
    /\ UNCHANGED <<kind, key, mode, snap, nin, want>>

ShaInput(data) ==
    /\ kind = "Sha256"
    /\ nin < MaxShaInputs
    /\ ~fin
    /\ eng' = [whole  |-> Sha256_input(eng.whole, data),
               stream |-> Sha256m_input(eng.stream, data)]
    /\ msg' = msg \o data
    /\ nin' = nin + 1
    /\ last' = Call("input", Len(data), TRUE)
    /\ UNCHANGED <<kind, key, mode, fin, snap, dig, want>>

\* hash() of the whole-message engine and finalise() of the other
ShaHash ==
    /\ kind = "Sha256"
    /\ ~fin
    /\ \E r \in {Sha256m_finalise(eng.stream)} :
           /\ eng' = [eng EXCEPT !.stream = r.eng]
           /\ dig' = [whole |-> Sha256_hash(eng.whole), stream |-> r.digest]
    /\ fin' = TRUE
    /\ last' = Call("hash", 0, TRUE)
    /\ UNCHANGED <<kind, key, msg, mode, snap, nin, want>>

NextSha256 ==
    \/ ShaNew
    \/ \E data \in ShaChunks : ShaInput(data)
    \/ ShaHash

SpecSha256 == InitSha256 /\ [][NextSha256]_vars

\* ------------------------------------------------------------------------
\* The digest taken from the eight registers of a SHA-2 state.  Here eng
\* holds the registers alone, as compression may leave them.
\* ------------------------------------------------------------------------

\* the values a register takes: words whose bytes all differ
RegisterValues(k) ==
    IF WordBytes(k) = 4
    THEN {<<\h0102, \h0304>>, <<\hf1e2, \hd3c4>>}
    ELSE {<<\h0102, \h0304, \h0506, \h0708>>, <<\hf1e2, \hd3c4, \hb5a6, \h9788>>}

InitDigest ==
    /\ kind \in Sha2Kinds
    /\ \E state \in [1..8 -> RegisterValues(kind)] : eng = [state |-> state]
    /\ key = NoKey
    /\ msg = <<>>
    /\ mode = "fresh"
    /\ fin = FALSE
    /\ snap = NoSnap
    /\ dig = <<>>
    /\ last = Call("new", 0, TRUE)
    /\ nin = 0
    /\ want = NoWant

\* the digest is taken: the end of hash(), or midstate() of Sha256m
ExtractDigest ==
    /\ kind \in Sha2Kinds
    /\ last.op = "new"
    /\ \E r \in {Sha2ExtractDigest(kind, eng.state)} :
           /\ dig' = r.digest
           /\ last' = Call("digest", 0, r.ok)
    /\ UNCHANGED <<kind, eng, key, msg, mode, fin, snap, nin, want>>

NextDigest == ExtractDigest

SpecDigest == InitDigest /\ [][NextDigest]_vars

\* ------------------------------------------------------------------------
\* One block compressed twice, pass by pass: by compress of core/state.rs
\* (eng.wide) and by process_block of sha2_compression! (eng.wrap), from the
\* same prior state eng.prior, schedule eng.schedule and constants eng.k
\* ------------------------------------------------------------------------

\* the word types: the number of 16-bit limbs of u32 and of u64
WordLimbs == {2, 4}

\* the passes of the loop: the length of the schedule of each word type
ScheduleLength(limbs) == IF limbs = 2 THEN 64 ELSE 80

AllOnes(limbs) == [l \in 1..limbs |-> 65535]

\* a word whose limbs differ, and differ from one n to the next
Mixed(limbs, n) == [l \in 1..limbs |-> (32768 + 4111 * l + 257 * n) % 65536]

\* the register states a block starts from
PriorStates(limbs) ==
    {[n \in 1..8 |-> AllOnes(limbs)], [n \in 1..8 |-> [l \in 1..limbs |-> 0]],
     [n \in 1..8 |-> Mixed(limbs, n)]}
    \cup (IF limbs = 2 THEN {SHA256_INITIAL_CONSTANTS} ELSE {})

\* the schedules: words that are all ones, words that differ, and for u32 the
\* schedule of a block of zeros with the 0x80 of padding
Schedules(limbs) ==
    {[i \in 1..ScheduleLength(limbs) |-> AllOnes(limbs)],
     [i \in 1..ScheduleLength(limbs) |-> Mixed(limbs, 3 * i)]}
    \cup (IF limbs = 2 THEN {MessageSchedule64(<<128>> \o Zeros(63))} ELSE {})

\* the tables of round constants
RoundConstantTables(limbs) ==
    {[i \in 1..ScheduleLength(limbs) |-> AllOnes(limbs)],
     [i \in 1..ScheduleLength(limbs) |-> Mixed(limbs, 7 * i)]}
    \cup (IF limbs = 2 THEN {SHA256_ROUND_CONSTANTS} ELSE {})

InitCompress ==
    /\ kind = "Compress"
    /\ \E limbs \in WordLimbs :
         \E prior \in PriorStates(limbs), schedule \in Schedules(limbs),
            k \in RoundConstantTables(limbs) :
           eng = [prior |-> prior, schedule |-> schedule, k |-> k, i |-> 0,
                  wide |-> prior, wrap |-> prior]
    /\ key = NoKey
    /\ msg = <<>>
    /\ mode = "fresh"
    /\ fin = FALSE
    /\ snap = NoSnap
    /\ dig = <<>>
    /\ last = Call("new", 0, TRUE)
    /\ nin = 0
    /\ want = NoWant

\* one pass of the loop of both compressions
CompressPass ==
    /\ kind = "Compress"
    /\ eng.i < Len(eng.schedule)
    /\ eng' = [eng EXCEPT
                 !.wide = CompressRound(eng.wide, eng.k[eng.i + 1], eng.schedule[eng.i + 1]),
                 !.wrap = IF Len(eng.prior[1]) = 2
                          THEN Sha2Round(eng.wrap, eng.k[eng.i + 1], eng.schedule[eng.i + 1])
                          ELSE Sha512Round(eng.wrap, eng.k[eng.i + 1], eng.schedule[eng.i + 1]),
                 !.i = eng.i + 1]
    /\ last' = Call("pass", eng.i, TRUE)
    /\ UNCHANGED <<kind, key, msg, mode, fin, snap, dig, nin, want>>

\* the closing additions into the prior state
CompressUpdate ==
    /\ kind = "Compress"
    /\ eng.i = Len(eng.schedule)
    /\ ~fin
    /\ eng' = [eng EXCEPT !.wide = CompressAdd(eng.prior, eng.wide),
                          !.wrap = IF Len(eng.prior[1]) = 2
                                   THEN Sha2Add(eng.prior, eng.wrap)
                                   ELSE Sha512Add(eng.prior, eng.wrap)]
    /\ fin' = TRUE
    /\ last' = Call("update", 0, TRUE)
    /\ UNCHANGED <<kind, key, msg, mode, snap, dig, nin, want>>

NextCompress == CompressPass \/ CompressUpdate

SpecCompress == InitCompress /\ [][NextCompress]_vars

\* ------------------------------------------------------------------------
\* The message schedule of a block, built word by word: eng.block the block,
\* eng.words the Vec `words`, eng.W the length asked for
\* ------------------------------------------------------------------------

\* bytes that all differ
Counting(n) == [k \in 1..n |-> (k * 3) % 256]

\* the blocks: the padding of the empty message, a block of 0xff bytes, a
\* block whose bytes differ
ScheduleBlocks(limbs) ==
    {<<128>> \o Zeros(32 * limbs - 1), Fill(255, 32 * limbs), Counting(32 * limbs)}

InitSchedule ==
    /\ kind = "Schedule"
    /\ \E limbs \in WordLimbs :
         \E block \in ScheduleBlocks(limbs) :
           eng = [block |-> block, words |-> <<>>, W |-> ScheduleLength(limbs),
                  limbs |-> limbs]
    /\ key = NoKey
    /\ msg = <<>>
    /\ mode = "fresh"
    /\ fin = FALSE
    /\ snap = NoSnap
    /\ dig = <<>>
    /\ last = Call("new", 0, TRUE)
    /\ nin = 0
    /\ want = NoWant

\* the initial sixteen words
ScheduleInitialWords ==
    /\ kind = "Schedule"
    /\ last.op = "new"
    /\ eng' = [eng EXCEPT !.words = IF eng.limbs = 2 THEN MessageSchedule16(eng.block)
                                   ELSE InitialWords64(eng.block)]
    /\ last' = Call("words", 0, TRUE)
    /\ UNCHANGED <<kind, key, msg, mode, fin, snap, dig, nin, want>>

\* one pass of `for i in 16..W`
SchedulePush ==
    /\ kind = "Schedule"
    /\ last.op \in {"words", "push"}
    /\ Len(eng.words) < eng.W
    /\ eng' = [eng EXCEPT !.words =
                  Append(eng.words,
                         IF eng.limbs = 2 THEN ExpandWord(eng.words, Len(eng.words) + 1)
                         ELSE ExpandWord64(eng.words, Len(eng.words) + 1))]
    /\ last' = Call("push", Len(eng.words), TRUE)
    /\ UNCHANGED <<kind, key, msg, mode, fin, snap, dig, nin, want>>

\* the loop has ended: the assertion on the length, and the schedule is built
ScheduleBuilt ==
    /\ kind = "Schedule"
    /\ last.op \in {"words", "push"}
    /\ Len(eng.words) >= eng.W
    /\ fin' = TRUE
    /\ last' = Call("schedule", 0, ScheduleAssert(eng.words, eng.W))
    /\ UNCHANGED <<kind, eng, key, msg, mode, snap, dig, nin, want>>

NextSchedule == ScheduleInitialWords \/ SchedulePush \/ ScheduleBuilt

SpecSchedule == InitSchedule /\ [][NextSchedule]_vars

\* ------------------------------------------------------------------------
\* The sixteen words of a RIPEMD-160 block: eng.words the schedule, eng.n the
\* number of calls of reverse_words made on it
\* ------------------------------------------------------------------------

\* the blocks: the padding of the empty message, a block of 0xff bytes, and
\* blocks whose bytes run through the values in steps of m from c
WordBlocks ==
    {<<128>> \o Zeros(63), Fill(255, 64)}
    \cup {[k \in 1..64 |-> (k * m + c) % 256] :
             m \in {1, 7, 31, 85, 255}, c \in {0, 1, 128, 200, 255}}

\* bound on the number of reverse_words calls on one schedule
MaxReverses == 3

InitWords ==
    /\ kind = "Words"
    /\ \E block \in WordBlocks : eng = [block |-> block, words |-> <<>>, n |-> 0]
    /\ key = NoKey
    /\ msg = <<>>
    /\ mode = "fresh"
    /\ fin = FALSE
    /\ snap = NoSnap
    /\ dig = <<>>
    /\ last = Call("new", 0, TRUE)
    /\ nin = 0
    /\ want = NoWant

\* let mut schedule: MessageSchedule<u32, 16> = MessageSchedule::from(block)
WordsFromBlock ==
    /\ kind = "Words"
    /\ last.op = "new"
    /\ eng' = [eng EXCEPT !.words = MessageSchedule16(eng.block)]
    /\ last' = Call("from", 0, TRUE)
    /\ UNCHANGED <<kind, key, msg, mode, fin, snap, dig, nin, want>>

\* schedule.reverse_words()
WordsReverse ==
    /\ kind = "Words"
    /\ last.op # "new"
    /\ eng.n < MaxReverses
    /\ eng' = [eng EXCEPT !.words = reverse_words(eng.words), !.n = eng.n + 1]
    /\ last' = Call("reverse_words", 0, TRUE)
    /\ UNCHANGED <<kind, key, msg, mode, fin, snap, dig, nin, want>>

NextWords == WordsFromBlock \/ WordsReverse

SpecWords == InitWords /\ [][NextWords]_vars

\* ------------------------------------------------------------------------
\* The HMAC engine reset after it was given the midstates of another engine
\* ------------------------------------------------------------------------

\* the modes from_midstate leaves
Restored == {"transferred_fresh", "transferred_used", "other"}

\* Hmac::reset called on an engine that from_midstate has written to
HResetRestored ==
    /\ kind = "Hmac"
    /\ mode \in Restored
    /\ eng' = Hmac_reset(eng)
    /\ key' = [key EXCEPT !.cur = key.own]
    /\ msg' = <<>>
    /\ mode' = "reset_restored"
    /\ fin' = FALSE
    /\ dig' = <<>>
    /\ last' = Call("reset", 0, TRUE)
    /\ UNCHANGED <<kind, want, snap, nin>>

\* the runs with two keys, inputs of one byte and the lengths 0 and BLOCKSIZE
NextHmacCache ==
    \/ \E k \in {<<107, 101, 121>>, Fill(75, 64)} : HNewWithKey(k)
    \/ HInput(Fill(97, 1))
    \/ HReset
    \/ HResetRestored
    \/ HMidstate
    \/ \E length \in {0, BLOCKSIZE} : HFromMidstate(length)
    \/ HFinalise

SpecHmacCache == InitHmac /\ [][NextHmacCache]_vars

\* ------------------------------------------------------------------------
\* The PBKDF2 builder finalised more than once
\* ------------------------------------------------------------------------

\* bound on the number of finalise calls of one run
MaxFinalises == 2

\* PBKDF2::finalise, the caller keeping the first digest it was given and
\* the fields the builder had then, as tests::pbkdf2_hmac_sha512 compares a
\* digest after every finalise of one builder
PFinaliseKept ==
    /\ kind = "PBKDF2"
    /\ snap.len < MaxFinalises
    /\ \E r \in {PBKDF2_finalise(eng)} :
           /\ eng' = r.eng
           /\ dig' = r.digest
           /\ snap' = IF snap.taken THEN [snap EXCEPT !.len = @ + 1]
                      ELSE [NoSnap EXCEPT !.taken = TRUE, !.mid = r.digest,
                                          !.eng = eng, !.len = 1]
    /\ last' = Call("finalise", 0, TRUE)
    /\ UNCHANGED <<kind, key, msg, mode, fin, nin, want>>

\* one password, one salt, iteration counts 1 and 2
NextPbkdf2Calls ==
    \/ \E count \in 1..2 : PIter(count)
    \/ PInputSalt(<<115>>)
    \/ PInput(<<112, 119>>)
    \/ PFinaliseKept

SpecPbkdf2Calls == InitPbkdf2 /\ [][NextPbkdf2Calls]_vars

\* ------------------------------------------------------------------------
\* pbkdf2.rs: PBKDF2::f_compression, one loop pass at a time
\* ------------------------------------------------------------------------

\* bound on the iteration count of the runs of f_compression
MaxFold == 4

\* a pass of `while u.len() != 1` that leaves the second entry in the list
FoldPassKeepsSecond(u) ==
    [ok |-> TryIntoDigest(XorBytes(u[1], u[2]), Len(u[1])).ok,
     u  |-> <<XorBytes(u[1], u[2])>> \o Tail(u)]

\* one pass of `while u.len() != 1`: the XOR of u[0] and u[1], collected and
\* converted to the type of u[0] (ok = FALSE is the panic "bad xor"), written
\* to u[0]; then u.remove(1)
FoldPass(u) ==
    [ok |-> TryIntoDigest(XorBytes(u[1], u[2]), Len(u[1])).ok,
     u  |-> <<XorBytes(u[1], u[2])>> \o SubSeq(u, 3, Len(u))]

\* a builder with its password, salt and iteration count, f_compression not
\* yet entered
InitFold ==
    /\ kind = "Fold"
    /\ \E password \in Passwords, salt \in Salts, iter \in 0..MaxFold :
           eng = [password |-> password, salt |-> salt, iter |-> iter,
                  u |-> <<>>, i |-> 0, passes |-> 0]
    /\ key = NoKey
    /\ msg = <<>>
    /\ mode = "builder"
    /\ fin = FALSE
    /\ snap = NoSnap
    /\ dig = <<>>
    /\ last = Call("new", 0, TRUE)
    /\ nin = 0
    /\ want = NoWant

\* let mut u = vec![prf.finalise()]
FoldFirst ==
    /\ kind = "Fold"
    /\ last.op = "new"
    /\ eng' = [eng EXCEPT !.u = <<FirstU(eng.password, eng.salt)>>, !.i = 1]
    /\ last' = Call("first", 0, TRUE)
    /\ UNCHANGED <<kind, key, msg, mode, fin, snap, dig, nin, want>>

\* one pass of `for i in 1..self.iter`
FoldPush ==
    /\ kind = "Fold"
    /\ last.op \in {"first", "push"}
    /\ eng.i < eng.iter
    /\ eng' = [eng EXCEPT !.u = Append(eng.u, NextU(eng.password, eng.u[eng.i])),
                          !.i = @ + 1]
    /\ last' = Call("push", eng.i, TRUE)
    /\ UNCHANGED <<kind, key, msg, mode, fin, snap, dig, nin, want>>

\* one pass of `while u.len() != 1`
FoldXor ==
    /\ kind = "Fold"
    /\ last.op \in {"first", "push", "xor"}
    /\ last.ok
    /\ ~(eng.i < eng.iter)
    /\ Len(eng.u) # 1
    /\ \E r \in {FoldPass(eng.u)} :
           /\ eng' = [eng EXCEPT !.u = IF r.ok THEN r.u ELSE @,
                                 !.passes = @ + 1]
           /\ last' = Call("xor", eng.passes + 1, r.ok)
    /\ UNCHANGED <<kind, key, msg, mode, fin, snap, dig, nin, want>>

\* u[0], returned
FoldReturn ==
    /\ kind = "Fold"
    /\ last.op \in {"first", "push", "xor"}
    /\ last.ok
    /\ ~(eng.i < eng.iter)
    /\ Len(eng.u) = 1
    /\ dig' = eng.u[1]
    /\ fin' = TRUE
    /\ last' = Call("return", 0, TRUE)
    /\ UNCHANGED <<kind, eng, key, msg, mode, snap, nin, want>>

NextFold == FoldFirst \/ FoldPush \/ FoldXor \/ FoldReturn

SpecFold == InitFold /\ [][NextFold]_vars

\* ------------------------------------------------------------------------
\* core/mod.rs: the index arithmetic of input_func!, for a length field of
\* type u64 or u128 (four or eight 16-bit limbs, most significant first) on
\* targets whose usize has 16, 32 or 64 bits
\* ------------------------------------------------------------------------

SHA512_BLOCKSIZE == 128

\* the block size of the engines that count in a field of the given limbs
BlockSizeOf(limbs) == IF limbs = 4 THEN BLOCKSIZE ELSE SHA512_BLOCKSIZE

\* a conversion to usize that keeps the most significant limbs
as_usize_high(length, width) == SubSeq(length, 1, width)

\* `self.length as usize`: the least significant limbs that usize holds
as_usize(length, width) ==
    SubSeq(length, Len(length) - width + 1, Len(length))

\* x % m, for x in limbs and m at most 2^15
RECURSIVE LimbsRem(_, _, _)
LimbsRem(x, m, acc) ==
    IF Len(x) = 0 THEN acc
    ELSE LimbsRem(Tail(x), m, ((acc * 65536) + Head(x)) % m)

\* `let buffer_index = self.length as usize % Self::BLOCKSIZE`
BufferIndex(length, width) ==
    LimbsRem(as_usize(length, width), BlockSizeOf(Len(length)), 0)

\* `let to_write = std::cmp::min(r, input.len())`
ToWrite(length, width, n) ==
    Min(BlockSizeOf(Len(length)) - BufferIndex(length, width), n)

\* `to_write as $length_ty`
AsLength(n, limbs) == [k \in 1..limbs |-> IF k = limbs THEN n ELSE 0]

\* usize on the targets Rust compiles for, in limbs
UsizeWidths == {1, 2, 4}

\* the lengths a run starts from: none, a partial block, the last byte that
\* 16 and 32 bits hold, values with every limb in use, and a value close to
\* the greatest of the type
IndexLengths(limbs) ==
    {[k \in 1..limbs |-> 0],
     AsLength(37, limbs),
     AsLength(65535, limbs),
     [k \in 1..limbs |-> IF k >= limbs - 1 THEN 65535 ELSE 0],
     [k \in 1..limbs |-> IF k = limbs THEN 65500 ELSE 4111 * k],
     [k \in 1..limbs |-> IF k = limbs THEN 32768 ELSE 65535]}

\* the number of bytes of one input call
IndexSizes == {0, 1, 63, 64, 65, 130}

InitIndex ==
    /\ kind = "Index"
    /\ \E limbs \in {4, 8}, width \in UsizeWidths :
           \E length \in IndexLengths(limbs) :
               eng = [length |-> length, usize |-> width, input |-> 0,
                      from |-> 0, to |-> 0]
    /\ key = NoKey
    /\ msg = <<>>
    /\ mode = "fresh"
    /\ fin = FALSE
    /\ snap = NoSnap
    /\ dig = <<>>
    /\ last = Call("new", 0, TRUE)
    /\ nin = 0
    /\ want = NoWant

\* input(data) is called with n bytes: let mut input = data.as_ref()
IndexInput(n) ==
    /\ kind = "Index"
    /\ last.op = "new"
    /\ eng' = [eng EXCEPT !.input = n]
    /\ last' = Call("input", n, TRUE)
    /\ UNCHANGED <<kind, key, msg, mode, fin, snap, dig, nin, want>>

\* one pass of `while input.len() != 0`: from and to are the bounds of the
\* range of the buffer that is written, ok = FALSE the panic of a range that
\* ends past the buffer
IndexPass ==
    /\ kind = "Index"
    /\ last.op \in {"input", "pass"}
    /\ last.ok
    /\ eng.input # 0
    /\ \E to_write \in {ToWrite(eng.length, eng.usize, eng.input)} :
           /\ eng' = [eng EXCEPT
                        !.from = BufferIndex(eng.length, eng.usize),
                        !.to = BufferIndex(eng.length, eng.usize) + to_write,
                        !.length = WideSum(<<eng.length,
                                             AsLength(to_write, Len(eng.length))>>).value,
                        !.input = @ - to_write]
           /\ last' = Call("pass", to_write,
                           BufferIndex(eng.length, eng.usize) + to_write
                               <= BlockSizeOf(Len(eng.length)))
    /\ UNCHANGED <<kind, key, msg, mode, fin, snap, dig, nin, want>>

NextIndex == (\E n \in IndexSizes : IndexInput(n)) \/ IndexPass

SpecIndex == InitIndex /\ [][NextIndex]_vars

\* ------------------------------------------------------------------------
\* ripemd.rs: Ripemd160::process_block, one pass of round! at a time
\* ------------------------------------------------------------------------

\* the arguments of the five round! calls of the left line
LeftRounds ==
    << [func |-> "f", buf |-> <<1, 2, 3, 4, 5>>,
        word_ord |-> <<0, 1, 2, 3, 4, 5, 6, 7, 8, 9, 10, 11, 12, 13, 14, 15>>,
        rol_ord |-> <<11, 14, 15, 12, 5, 8, 7, 9, 11, 13, 14, 15, 6, 7, 9, 8>>,
        const |-> <<\h0000, \h0000>>],
       [func |-> "g", buf |-> <<5, 1, 2, 3, 4>>,
        word_ord |-> <<7, 4, 13, 1, 10, 6, 15, 3, 12, 0, 9, 5, 2, 14, 11, 8>>,
        rol_ord |-> <<7, 6, 8, 13, 11, 9, 7, 15, 7, 12, 15, 9, 11, 7, 13, 12>>,
        const |-> <<\h5a82, \h7999>>],
       [func |-> "h", buf |-> <<4, 5, 1, 2, 3>>,
        word_ord |-> <<3, 10, 14, 4, 9, 15, 8, 1, 2, 7, 0, 6, 13, 11, 5, 12>>,
        rol_ord |-> <<11, 13, 6, 7, 14, 9, 13, 15, 14, 8, 13, 6, 5, 12, 7, 5>>,
        const |-> <<\h6ed9, \heba1>>],
       [func |-> "i", buf |-> <<3, 4, 5, 1, 2>>,
        word_ord |-> <<1, 9, 11, 10, 0, 8, 12, 4, 13, 3, 7, 15, 14, 5, 6, 2>>,
        rol_ord |-> <<11, 12, 14, 15, 14, 15, 9, 8, 9, 14, 5, 6, 8, 6, 5, 12>>,
        const |-> <<\h8f1b, \hbcdc>>],
       [func |-> "j", buf |-> <<2, 3, 4, 5, 1>>,
        word_ord |-> <<4, 0, 5, 9, 7, 12, 2, 10, 14, 1, 3, 8, 11, 6, 15, 13>>,
        rol_ord |-> <<9, 15, 5, 11, 6, 8, 13, 12, 5, 12, 13, 14, 11, 8, 5, 6>>,
        const |-> <<\ha953, \hfd4e>>] >>

\* the arguments of the five round! calls of the parallel line
ParallelRounds ==
    << [func |-> "j", buf |-> <<1, 2, 3, 4, 5>>,
        word_ord |-> <<5, 14, 7, 0, 9, 2, 11, 4, 13, 6, 15, 8, 1, 10, 3, 12>>,
        rol_ord |-> <<8, 9, 9, 11, 13, 15, 15, 5, 7, 7, 8, 11, 14, 14, 12, 6>>,
        const |-> <<\h50a2, \h8be6>>],
       [func |-> "i", buf |-> <<5, 1, 2, 3, 4>>,
        word_ord |-> <<6, 11, 3, 7, 0, 13, 5, 10, 14, 15, 8, 12, 4, 9, 1, 2>>,
        rol_ord |-> <<9, 13, 15, 7, 12, 8, 9, 11, 7, 7, 12, 7, 6, 15, 13, 11>>,
        const |-> <<\h5c4d, \hd124>>],
       [func |-> "h", buf |-> <<4, 5, 1, 2, 3>>,
        word_ord |-> <<15, 5, 1, 3, 7, 14, 6, 9, 11, 8, 12, 2, 10, 0, 4, 13>>,
        rol_ord |-> <<9, 7, 15, 11, 8, 6, 6, 14, 12, 13, 5, 14, 13, 13, 7, 5>>,
        const |-> <<\h6d70, \h3ef3>>],
       [func |-> "g", buf |-> <<3, 4, 5, 1, 2>>,
        word_ord |-> <<8, 6, 4, 1, 3, 11, 15, 0, 5, 12, 2, 13, 9, 7, 10, 14>>,
        rol_ord |-> <<15, 5, 8, 11, 14, 14, 6, 14, 6, 9, 12, 9, 12, 5, 15, 8>>,
        const |-> <<\h7a6d, \h76e9>>],
       [func |-> "f", buf |-> <<2, 3, 4, 5, 1>>,
        word_ord |-> <<12, 15, 10, 4, 1, 5, 8, 7, 6, 2, 13, 14, 0, 3, 9, 11>>,
        rol_ord |-> <<8, 5, 12, 9, 12, 5, 14, 6, 8, 13, 6, 5, 15, 13, 11, 11>>,
        const |-> <<\h0000, \h0000>>] >>

\* the round! call that pass i of the 160 passes of a block belongs to: the
\* left line runs passes 0..79, the parallel line 80..159
RoundsOf(i) ==
    IF i < 80 THEN LeftRounds[(i \div 16) + 1]
    ELSE ParallelRounds[((i - 80) \div 16) + 1]

\* `let mut buf: [&mut u32; 5] = $buf` at the first pass of a round!, and
\* the array the pass before left otherwise
RoundsBuf(e) == IF e.i % 16 = 0 THEN RoundsOf(e.i).buf ELSE e.buf

\* the five variables after pass e.i: aa..ee on the left line, aaa..eee on
\* the parallel line
RoundsStepped(e) ==
    RoundStep(IF e.i < 80 THEN e.l ELSE e.p, RoundsBuf(e), RoundsOf(e.i).func,
              e.words[RoundsOf(e.i).word_ord[(e.i % 16) + 1] + 1],
              RoundsOf(e.i).rol_ord[(e.i % 16) + 1], RoundsOf(e.i).const)

\* buf.rotate_right(1)
BufRotateRight(buf) == <<buf[5], buf[1], buf[2], buf[3], buf[4]>>

\* the register states a block starts from
RoundsPriorStates ==
    {RIPEMD160_INITIAL_CONSTANTS, [n \in 1..5 |-> AllOnes(2)],
     [n \in 1..5 |-> Mixed(2, n)]}

\* the sixteen words of a block: all ones, words that differ, and the words of
\* the padding block of the empty message
RoundsWords ==
    {[n \in 1..16 |-> AllOnes(2)], [n \in 1..16 |-> Mixed(2, 3 * n)],
     [n \in 1..16 |-> IF n = 1 THEN <<0, 128>> ELSE <<0, 0>>]}

\* process_block after `let (mut aa, ..) = buffer` and `let (mut aaa, ..) =
\* buffer`: both sets of variables hold the registers the block starts from
InitRounds ==
    /\ kind = "Rounds"
    /\ \E buffer \in RoundsPriorStates, words \in RoundsWords :
           eng = [buffer |-> buffer, words |-> words, l |-> buffer,
                  p |-> buffer, buf |-> <<1, 2, 3, 4, 5>>, i |-> 0,
                  state |-> buffer]
    /\ key = NoKey
    /\ msg = <<>>
    /\ mode = "fresh"
    /\ fin = FALSE
    /\ snap = NoSnap
    /\ dig = <<>>
    /\ last = Call("new", 0, TRUE)
    /\ nin = 0
    /\ want = NoWant

\* one pass of the loop of round!
RoundsPass ==
    /\ kind = "Rounds"
    /\ eng.i < 160
    /\ eng' = [eng EXCEPT !.l = IF eng.i < 80 THEN RoundsStepped(eng) ELSE @,
                          !.p = IF eng.i < 80 THEN @ ELSE RoundsStepped(eng),
                          !.buf = BufRotateRight(RoundsBuf(eng)),
                          !.i = @ + 1]
    /\ last' = Call("round", 0, TRUE)
    /\ UNCHANGED <<kind, key, msg, mode, fin, snap, dig, nin, want>>

\* let new_state = [..]; mdbuf.update(new_state)
RoundsUpdate ==
    /\ kind = "Rounds"
    /\ eng.i = 160
    /\ last.op = "round"
    /\ eng' = [eng EXCEPT !.state = Combine(eng.buffer, eng.l, eng.p)]
    /\ last' = Call("update", 0, TRUE)
    /\ UNCHANGED <<kind, key, msg, mode, fin, snap, dig, nin, want>>

NextRounds == RoundsPass \/ RoundsUpdate

SpecRounds == InitRounds /\ [][NextRounds]_vars

\* ------------------------------------------------------------------------
\* The engines that restore a midstate with a length: the hash engines and
\* the HMAC engine
\* ------------------------------------------------------------------------

InitEngines == InitKind(EngineKinds \cup {"Hmac"})

NextEngines == NextEngine \/ NextHmac

SpecEngines == InitEngines /\ [][NextEngines]_vars

\* ------------------------------------------------------------------------
\* Every kind of object
\* ------------------------------------------------------------------------

Init == InitKind(EngineKinds \cup {"Hmac", "PBKDF2"})

Next == NextEngine \/ NextHmac \/ NextPbkdf2

Spec == Init /\ [][Next]_vars

\* ------------------------------------------------------------------------
\* Properties of the hash engines
\* ------------------------------------------------------------------------

\* C1: chunking invariance. Whatever chunks (empty ones and ones that straddle
\* a block boundary included) a freshly constructed engine was given by
\* successive input calls, its state and length before finalise are those of a
\* fresh engine given the concatenation msg in one input call, and finalise
\* returns the digest that single call gives.
C1_ChunkingInvariance ==
    (kind \in EngineKinds /\ mode = "fresh") =>
        /\ ~fin => /\ eng.state = OneInput(kind, msg).state
                   /\ eng.length = OneInput(kind, msg).length
        /\ last.op = "finalise" => dig = Hash(kind, msg)

\* two input calls, the second straddling the block boundary, then finalise
C1_Witness ==
    /\ kind \in EngineKinds
    /\ mode = "fresh"
    /\ last.op = "finalise"
    /\ nin = 2
    /\ msg = Fill(97, 1) \o Fill(99, 64)

\* C2: midstate resume. E absorbed snap.len bytes, a whole number of blocks,
\* and gave the snapshot; a fresh engine restored from the snapshot with that
\* length and then given the tail returns at finalise the digest E returns
\* when given the same tail.
C2_MidstateResume ==
    (/\ kind \in EngineKinds
     /\ mode = "restored_fresh"
     /\ last.op = "finalise"
     /\ snap.len % BLOCKSIZE = 0) =>
        dig = EngFinalise(kind, EngInput(kind, snap.eng,
                  SubSeq(msg, snap.len + 1, Len(msg)))).digest

\* C3: from_midstate with a length that is no multiple of BLOCKSIZE fails, and
\* the failed call leaves the engine (state, length, buffer) as it was; for
\* the HMAC engine, inner and outer are both as they were.
C3_UnalignedRejected ==
    [][(/\ kind \in {"Ripemd160", "Hmac"}
        /\ last'.op = "from_midstate"
        /\ last'.arg % BLOCKSIZE # 0) => (~last'.ok /\ eng' = eng)]_vars

\* an HMAC engine that has absorbed input refused a snapshot
C3_Witness ==
    /\ kind = "Hmac"
    /\ last.op = "from_midstate"
    /\ last.arg % BLOCKSIZE # 0
    /\ ~last.ok
    /\ nin > 0

\* C4: a successful from_midstate(snapshot, absorbed_length), on an engine in
\* any condition, leaves state = snapshot, length = absorbed_length and the
\* buffer cleared.
C4_FromMidstateFrame ==
    (/\ kind \in EngineKinds
     /\ last.op = "from_midstate"
     /\ last.ok
     /\ last.arg % BLOCKSIZE = 0) =>
        /\ EngMidstate(kind, eng) = snap.mid
        /\ EngLength(kind, eng) = last.arg
        /\ eng.buffer = EngDefault(kind).buffer

\* C5: reset returns the engine to its initial condition after any calls made:
\* state the initial constants, length 0, buffer zero or empty; the inputs
\* that follow and finalise give what a freshly constructed engine gives.
C5_ResetIsInitial ==
    kind \in EngineKinds =>
        /\ last.op = "reset" => eng = EngDefault(kind)
        /\ (mode = "reset" /\ ~fin) => eng = OneInput(kind, msg)
        /\ (mode = "reset" /\ last.op = "finalise") => dig = Hash(kind, msg)

\* an engine that absorbed a block, gave a snapshot and was reset, then given
\* one byte and finalised
C5_Witness ==
    /\ kind \in EngineKinds
    /\ mode = "reset"
    /\ snap.taken
    /\ snap.len = BLOCKSIZE
    /\ last.op = "finalise"
    /\ msg = Fill(97, 1)

\* ------------------------------------------------------------------------
\* Properties of the HMAC engine
\* ------------------------------------------------------------------------

\* what new_with_key(K); input(M); finalise returns
HmacOf(K, M) == Hmac_finalise(Hmac_input(new_with_key(K).eng, M)).digest

\* H of the HMAC construction: the digest of the engine Hmac is built on
H(m) == Hash("Ripemd160", m)

\* the primed key K' by its definition: H(K) for a key longer than a block,
\* the key otherwise, right-padded with 0x00 to BLOCKSIZE bytes
PrimedKeyRef(K) ==
    IF Len(K) > BLOCKSIZE THEN H(K) \o Zeros(BLOCKSIZE - Len(H(K)))
    ELSE K \o Zeros(BLOCKSIZE - Len(K))

\* H((K' xor opad) || H((K' xor ipad) || M))
HmacRef(K, M) ==
    H(XorBytes(PrimedKeyRef(K), Fill(92, BLOCKSIZE))
      \o H(XorBytes(PrimedKeyRef(K), Fill(54, BLOCKSIZE)) \o M))

\* C6: HMAC reset preserves the key. An engine built with new_with_key(K)
\* that has taken input and been finalised, and is then reset, returns for
\* input(M); finalise what a fresh new_with_key(K) engine returns for it.
C6_HmacResetKeepsKey ==
    (kind = "Hmac" /\ mode = "reset" /\ last.op = "finalise") =>
        dig = HmacOf(key.own, msg)

\* C7: the HMAC construction. new_with_key(K); input(M); finalise returns
\* H((K' xor opad) || H((K' xor ipad) || M)), K' the primed key, ipad 0x36 and
\* opad 0x5c repeated BLOCKSIZE times.
C7_HmacConstruction ==
    (kind = "Hmac" /\ mode = "keyed" /\ last.op = "finalise") =>
        dig = HmacRef(key.own, msg)

\* a key longer than a block, a message given in two input calls
C7_Witness ==
    /\ kind = "Hmac"
    /\ mode = "keyed"
    /\ last.op = "finalise"
    /\ Len(key.own) > BLOCKSIZE
    /\ nin = 2
    /\ Len(msg) = BLOCKSIZE + 1

\* key lengths around the block size
KeyLengths == {0, 1, BLOCKSIZE - 1, BLOCKSIZE, BLOCKSIZE + 1, 2 * BLOCKSIZE}

\* C8: key priming yields exactly BLOCKSIZE bytes: H(K) zero-padded for a key
\* longer than a block, the key right-padded with 0x00 for a shorter one, the
\* key itself for one of BLOCKSIZE bytes; the three assertions of
\* new_with_key hold, and inner and outer have each absorbed one whole block
\* when it returns.
C8_KeyPriming ==
    (kind = "Hmac" /\ last.op = "new_with_key") =>
        /\ last.ok
        /\ PrimeKey(key.own) = PrimedKeyRef(key.own)
        /\ Len(PrimeKey(key.own)) = BLOCKSIZE
        /\ eng.inner.length = BLOCKSIZE
        /\ eng.outer.length = BLOCKSIZE
        /\ \A n \in KeyLengths :
               /\ KeyAsserts(PrimeKey(Fill(7, n)))
               /\ new_with_key(Fill(7, n)).ok

\* new_with_key has returned for a key longer than a block
C8_Witness ==
    /\ kind = "Hmac"
    /\ last.op = "new_with_key"
    /\ last.ok
    /\ Len(key.own) > BLOCKSIZE

\* C9: HMAC midstate transfer. A default-constructed engine given
\* from_midstate(new_with_key(K).midstate(), BLOCKSIZE), then input(M) and
\* finalise, returns what new_with_key(K); input(M); finalise returns.
C9_HmacMidstateTransfer ==
    (kind = "Hmac" /\ mode = "transferred_fresh" /\ last.op = "finalise") =>
        dig = HmacOf(snap.key, msg)

\* ------------------------------------------------------------------------
\* Properties of PBKDF2
\* ------------------------------------------------------------------------

\* U_1 = HMAC_P(S || 00 00 00 01), U_j = HMAC_P(U_{j-1})
RECURSIVE URef(_, _, _)
URef(P, S, j) ==
    IF j = 1 THEN HmacOf(P, S \o <<0, 0, 0, 1>>)
    ELSE HmacOf(P, URef(P, S, j - 1))

\* T = U_1 xor ... xor U_c
RECURSIVE TRef(_, _, _)
TRef(P, S, c) ==
    IF c = 1 THEN URef(P, S, 1)
    ELSE XorBytes(TRef(P, S, c - 1), URef(P, S, c))

\* C10: the PBKDF2 F-function. For an iteration count c >= 1, finalise
\* returns U_1 xor ... xor U_c, with U_1 the HMAC under the password of the
\* salt followed by the counter 00 00 00 01 and U_j the HMAC under the
\* password of U_{j-1}.
C10_Pbkdf2F ==
    (kind = "PBKDF2" /\ last.op = "finalise" /\ eng.iter >= 1) =>
        dig = TRef(eng.password, eng.salt, eng.iter)

\* three iterations over a password and a salt
C10_Witness ==
    /\ kind = "PBKDF2"
    /\ last.op = "finalise"
    /\ eng.iter = 3
    /\ eng.password # <<>>
    /\ eng.salt # <<>>

\* C11: PBKDF2 refuses an iteration count of zero. After iter(0), finalise
\* fails and returns no derived key.
C11_ZeroIterationsRefused ==
    (kind = "PBKDF2" /\ last.op = "finalise" /\ eng.iter = 0) =>
        (~last.ok /\ dig = <<>>)

\* C12: the PBKDF2 builder. new(salt) gives an empty password, the salt and
\* iter = 1; after any calls the password is the concatenation of the input
\* arguments, the salt the constructor salt followed by the input_salt
\* arguments, and iter the argument of the last iter call or 1, all counted
\* since construction or the last reset; reset gives the empty password, the
\* empty salt and iter = 1.
C12_BuilderFields ==
    kind = "PBKDF2" =>
        /\ eng.password = msg
        /\ eng.salt = want.salt
        /\ eng.iter = want.iter
        /\ last.op = "new" =>
               eng = [password |-> <<>>, salt |-> want.salt, iter |-> 1]
        /\ last.op = "reset" =>
               eng = [password |-> <<>>, salt |-> <<>>, iter |-> 1]

\* a builder given the salt 0x73, the password 0x70 0x77 and iter(3)
C12_Witness ==
    /\ kind = "PBKDF2"
    /\ last.op = "input"
    /\ nin = 2
    /\ eng.salt = <<115>>
    /\ eng.password = <<112, 119>>
    /\ want.iter = 3

\* ------------------------------------------------------------------------
\* Properties of the buffer, the padding and the digest
\* ------------------------------------------------------------------------

\* the modes in which msg is the message the engine stands for: constructed or
\* reset and then fed, or restored from a snapshot of whole blocks and then fed
MessageModes == {"fresh", "reset", "restored_fresh", "restored_used"}

\* the bytes of the buffer not yet compressed: the first length % BLOCKSIZE
\* bytes of the array of the array-buffered engine, the whole Vec of Sha256m
LiveBytes(k, e) ==
    IF k = "Ripemd160" THEN SubSeq(e.buffer, 1, e.length % BLOCKSIZE)
    ELSE e.buffer

\* the last n bytes of m
LastBytes(m, n) == SubSeq(m, Len(m) - n + 1, Len(m))

\* C14: buffer/length invariant. Between calls, after new, input, reset and a
\* successful from_midstate, the length (in bytes) is the length of the
\* message, length mod BLOCKSIZE is the number of live bytes in the buffer, and
\* the live bytes are the last length mod BLOCKSIZE bytes of the message.
C14_BufferLengthInvariant ==
    (/\ kind \in EngineKinds
     /\ mode \in MessageModes
     /\ ~fin
     /\ last.ok) =>
        /\ EngLength(kind, eng) = Len(msg)
        /\ Len(LiveBytes(kind, eng)) = EngLength(kind, eng) % BLOCKSIZE
        /\ LiveBytes(kind, eng) = LastBytes(msg, Len(msg) % BLOCKSIZE)

\* the complete blocks of m, in message order
CompleteBlocks(m) ==
    from_message(SubSeq(m, 1, (Len(m) \div BLOCKSIZE) * BLOCKSIZE), BLOCKSIZE)

\* the initial state with each block of the sequence compressed into it once,
\* first block first
CompressedInOrder(k, blocks) ==
    IF k = "Ripemd160" THEN ProcessBlocks(RIPEMD160_INITIAL_CONSTANTS, blocks)
    ELSE Sha2ProcessBlocks(SHA256_INITIAL_CONSTANTS, blocks)

\* C15: eager block consumption. Whenever input returns, every complete block
\* of the message so far has been compressed into state once and in message
\* order and fewer than BLOCKSIZE live bytes remain; so the buffer holds at
\* most BLOCKSIZE bytes when finalise starts, and the bytes that the next
\* input call cuts from the buffer to compress are one block.
C15_EagerBlockConsumption ==
    (/\ kind \in EngineKinds
     /\ mode \in {"fresh", "reset"}
     /\ ~fin) =>
        /\ eng.state = CompressedInOrder(kind, CompleteBlocks(msg))
        /\ Len(LiveBytes(kind, eng)) < BLOCKSIZE
        /\ Len(eng.buffer) <= BLOCKSIZE
        /\ \A data \in Chunks :
               Len(LiveBytes(kind, eng) \o data) >= BLOCKSIZE =>
                   Len(from_message(SubSeq(LiveBytes(kind, eng) \o data,
                                           1, BLOCKSIZE), BLOCKSIZE)) = 1

\* input has returned twice and the message holds two blocks that differ
C15_Witness ==
    /\ kind \in EngineKinds
    /\ last.op = "input"
    /\ mode \in {"fresh", "reset"}
    /\ msg = Fill(99, 64) \o Fill(100, 64)

\* pad_fbuffer of the engine of kind k
EngPadFbuffer(k, e) ==
    IF k = "Ripemd160" THEN pad_fbuffer(e) ELSE Sha256m_pad_fbuffer(e)

\* the number of live tail bytes of a message
TailLen(m) == Len(m) % BLOCKSIZE

\* C16: padding layout. With t live tail bytes, the final message that
\* finalise builds is those t bytes and no other buffer bytes, then 0x80, then
\* the least number of zero bytes, then the LEN_BYTES-wide length field: one
\* block when t <= BLOCKSIZE - LEN_BYTES - 1 and two blocks otherwise.
C16_PaddingLayout ==
    (/\ kind \in EngineKinds
     /\ mode \in {"fresh", "reset"}
     /\ ~fin) =>
        /\ SubSeq(EngPadFbuffer(kind, eng), 1,
                  Len(EngPadFbuffer(kind, eng)) - LEN_BYTES)
             = LastBytes(msg, TailLen(msg)) \o <<128>>
                 \o Zeros((2 * BLOCKSIZE - LEN_BYTES - 1 - TailLen(msg)) % BLOCKSIZE)
        /\ Len(EngPadFbuffer(kind, eng))
             = IF TailLen(msg) <= BLOCKSIZE - LEN_BYTES - 1
               THEN BLOCKSIZE ELSE 2 * BLOCKSIZE
        /\ Len(from_message(EngPadFbuffer(kind, eng), BLOCKSIZE)) <= 2

\* the integer x as n bytes, least significant first
RECURSIVE LeBytes(_, _)
LeBytes(x, n) == IF n = 0 THEN <<>> ELSE <<x % 256>> \o LeBytes(x \div 256, n - 1)

\* C17: length suffix. The integer that padding appends is the length of the
\* absorbed message in bits, 8 times the bytes given to input since
\* construction or reset plus the length installed by from_midstate, written
\* big-endian by the SHA-2 engine and little-endian by RIPEMD-160.
C17_LengthSuffix ==
    (/\ kind \in EngineKinds
     /\ mode \in MessageModes
     /\ ~fin) =>
        LastBytes(EngPadFbuffer(kind, eng), LEN_BYTES)
            = IF kind = "Ripemd160" THEN LeBytes(8 * Len(msg), LEN_BYTES)
              ELSE Rev(LeBytes(8 * Len(msg), LEN_BYTES))

\* C18: streaming and one-shot SHA-256 agree. For every message, the empty
\* one and those of 55, 56, 64 and 112 bytes included, finalise of the
\* block-at-a-time engine and hash of the whole-message engine return the
\* same 32 bytes.
C18_StreamingIsOneShot ==
    (kind = "Sha256" /\ last.op = "hash") =>
        /\ dig.stream = dig.whole
        /\ Len(dig.whole) = 32

\* both engines were given 56 bytes twice and gave their digests
C18_Witness ==
    /\ kind = "Sha256"
    /\ last.op = "hash"
    /\ nin = 2
    /\ Len(msg) = 112

\* the whole blocks at the front of m, as bytes
WholeBlockPrefix(m) == SubSeq(m, 1, (Len(m) \div BLOCKSIZE) * BLOCKSIZE)

\* C19: midstate is a pure read of the state after the last fully absorbed
\* block. The call changes nothing in the engine; after inputs of n bytes in
\* all, the value is the midstate of an engine given the first
\* floor(n / BLOCKSIZE) * BLOCKSIZE bytes alone; and an input call that
\* completes no block leaves the registers, and so midstate, as they were.
C19_MidstatePureRead ==
    [][(/\ kind \in EngineKinds
        /\ mode' \in {"fresh", "reset"}
        /\ ~fin') =>
           /\ EngMidstate(kind, eng')
                = EngMidstate(kind, OneInput(kind, WholeBlockPrefix(msg')))
           /\ last'.op = "midstate" =>
                /\ eng' = eng
                /\ snap'.mid = EngMidstate(kind, OneInput(kind, WholeBlockPrefix(msg)))
           /\ (/\ last'.op = "input"
               /\ mode = mode'
               /\ Len(msg') \div BLOCKSIZE = Len(msg) \div BLOCKSIZE) =>
                  /\ eng'.state = eng.state
                  /\ EngMidstate(kind, eng') = EngMidstate(kind, eng)]_vars

\* midstate was called on an engine holding one whole block and one more byte
C19_Witness ==
    /\ kind \in EngineKinds
    /\ mode \in {"fresh", "reset"}
    /\ last.op = "midstate"
    /\ msg = Fill(99, 64) \o Fill(97, 1)
    /\ snap.mid = EngMidstate(kind, eng)

\* the number of leading registers that make the digest
FirstRegisters(k) ==
    CASE k = "Sha224" -> 7
      [] k = "Sha384" -> 6
      [] OTHER -> 8

\* C20: SHA-2 digest extraction. For SHA-224, SHA-256, SHA-384 and SHA-512
\* and every register state, the digest made by reversing the registers,
\* skipping the unused trailing ones, emitting little-endian bytes and
\* reversing the bytes is the big-endian concatenation of the first 7, 8, 6
\* or 8 registers, and has 28, 32, 48 or 64 bytes, so that the conversion to
\* the fixed-size digest does not fail.
C20_DigestExtraction ==
    (kind \in Sha2Kinds /\ last.op = "digest") =>
        /\ last.ok
        /\ dig = FirstRegistersBe(eng.state, FirstRegisters(kind))
        /\ Len(dig) = DigestSize(kind)
        /\ DigestSize(kind) = FirstRegisters(kind) * WordBytes(kind)

\* the digest of SHA-384 was taken from registers of which the sixth and the
\* seventh differ
C20_Witness ==
    /\ kind = "Sha384"
    /\ last.op = "digest"
    /\ eng.state[6] # eng.state[7]
    /\ Len(dig) = 48

\* ------------------------------------------------------------------------
\* Properties of the length counter
\* ------------------------------------------------------------------------

\* the engine has absorbed the bytes its length field says and an input of n
\* bytes takes the total to 2^61 bytes or more, past what a 64-bit count of
\* bits can hold
PastLimit(k, length, n) ==
    IF k = "Ripemd160"
    THEN U64Add(length, n).overflow \/ U64Add(length, n).value[1] >= 8192
    ELSE U64Add(length, n * 8).overflow

\* C13: length overflow is reported. An input call whose bytes take the
\* cumulative length to 2^61 bytes or more fails, rather than wrapping the
\* counter or going on to a digest with a truncated bit length.
C13_LengthOverflowReported ==
    [][(/\ kind \in EngineKinds
        /\ mode # "other"
        /\ last'.op = "input"
        /\ PastLimit(kind, eng.length, last'.arg)) => ~last'.ok]_vars

\* ------------------------------------------------------------------------
\* Properties of the compressions
\* ------------------------------------------------------------------------

\* x + y modulo the width of the word by the school method on its bytes,
\* least significant byte first, c the carry
RECURSIVE AddBytesLe(_, _, _)
AddBytesLe(x, y, c) ==
    IF Len(x) = 0 THEN <<>>
    ELSE <<(Head(x) + Head(y) + c) % 256>>
         \o AddBytesLe(Tail(x), Tail(y), (Head(x) + Head(y) + c) \div 256)

\* the word of the big-endian bytes b
LimbsFromBe(b) == [k \in 1..(Len(b) \div 2) |-> b[2 * k - 1] * 256 + b[2 * k]]

Plus(x, y) == LimbsFromBe(Rev(AddBytesLe(WordLeBytes(x), WordLeBytes(y), 0)))

\* the round as specified: T1 = h + Sigma1(e) + Ch(e,f,g) + K[i] + W[i],
\* T2 = Sigma0(a) + Maj(a,b,c), and the registers a..h afterwards
T1Ref(r, k, w) ==
    Plus(Plus(Plus(Plus(r[8], Usigma1(r[5])), Choice(r[5], r[6], r[7])), k), w)

T2Ref(r) == Plus(Usigma0(r[1]), Majority(r[1], r[2], r[3]))

RoundRef(r, k, w) ==
    <<Plus(T1Ref(r, k, w), T2Ref(r)), r[1], r[2], r[3],
      Plus(r[4], T1Ref(r, k, w)), r[5], r[6], r[7]>>

\* C21: the SHA-2 compressions agree. On every pass the widen-and-modulo
\* compression and the wrapping-add compression leave the same registers,
\* which are those of the specified round; the closing additions into the
\* prior state agree and are component-wise additions mod 2^32 (mod 2^64 for
\* u64 words); and no sum taken in the wide type overflows it.
C21_CompressionsAgree ==
    [][kind = "Compress" =>
          /\ eng'.wide = eng'.wrap
          /\ last'.op = "pass" =>
               /\ eng'.wide = RoundRef(eng.wide, eng.k[eng.i + 1], eng.schedule[eng.i + 1])
               /\ \A sum \in CompressSums(eng.prior, eng.wide, eng.k[eng.i + 1],
                                          eng.schedule[eng.i + 1]) :
                      ~WideOverflows(sum)
          /\ last'.op = "update" =>
               /\ eng'.wide = [n \in 1..8 |-> Plus(eng.prior[n], eng.wide[n])]
               /\ eng.k = SHA256_ROUND_CONSTANTS =>
                      eng'.wrap = Sha2Digest(eng.prior, eng.schedule)
               /\ Len(eng'.wide[1]) = Len(eng.prior[1])]_vars

\* both compressions have finished the 80 passes of a block of u64 words whose
\* first pass adds five terms that are all 2^64 - 1
C21_Witness ==
    /\ kind = "Compress"
    /\ last.op = "update"
    /\ eng.i = 80
    /\ eng.prior[8] = AllOnes(4)
    /\ eng.schedule[1] = AllOnes(4)
    /\ eng.k[1] = AllOnes(4)
    /\ eng.wide = eng.wrap

\* the word pushed at position i as specified: sigma1(W[i-2]) + W[i-7]
\* + sigma0(W[i-15]) + W[i-16] modulo the width of the word (positions from 1)
ExpandRef(words, i) ==
    Plus(Plus(Plus(Lsigma1(words[i - 2]), words[i - 7]), Lsigma0(words[i - 15])),
         words[i - 16])

\* C22: SHA-2 schedule expansion. Words 0..15 are the big-endian reading of
\* the consecutive 4-byte (8-byte) groups of the block; each later word is
\* (sigma1(W[i-2]) + W[i-7] + sigma0(W[i-15]) + W[i-16]) mod 2^32 (mod 2^64);
\* the four-term sum never overflows the u64 (u128) it is computed in; and the
\* schedule has W words, so that the length assertion holds for W = 64 and 80.
C22_ScheduleExpansion ==
    [][kind = "Schedule" =>
          /\ last'.op = "words" =>
               /\ Len(eng'.words) = 16
               /\ \A k \in 1..16 :
                      eng'.words[k] = LimbsFromBe(SubSeq(eng.block,
                                          2 * eng.limbs * (k - 1) + 1, 2 * eng.limbs * k))
          /\ last'.op = "push" =>
               /\ eng'.words = Append(eng.words, ExpandRef(eng.words, Len(eng.words) + 1))
               /\ ~WideOverflows(WideSum(<<Lsigma1(eng.words[Len(eng.words) - 1]),
                                           eng.words[Len(eng.words) - 6],
                                           Lsigma0(eng.words[Len(eng.words) - 14]),
                                           eng.words[Len(eng.words) - 15]>>))
          /\ last'.op = "schedule" =>
               /\ last'.ok
               /\ Len(eng.words) = eng.W
               /\ eng.W \in {64, 80}
               /\ eng.limbs = 2 => eng.words = MessageSchedule64(eng.block)]_vars

\* the schedule of 80 u64 words of a block of 0xff bytes is built
C22_Witness ==
    /\ kind = "Schedule"
    /\ last.op = "schedule"
    /\ eng.limbs = 4
    /\ eng.block = Fill(255, 128)
    /\ Len(eng.words) = 80

\* the word of four bytes read little-endian
LeWord(b) == <<b[4] * 256 + b[3], b[2] * 256 + b[1]>>

\* the sixteen consecutive 4-byte groups of a block read little-endian
LeWords(block) == [k \in 1..16 |-> LeWord(SubSeq(block, 4 * k - 3, 4 * k))]

\* C23: RIPEMD-160 word order. The 16 words that compression uses are the
\* little-endian reading of the sixteen consecutive 4-byte groups of the
\* block: the 16-word schedule of the big-endian parser, whose expansion loop
\* is empty for W = 16, with every word byte-swapped by reverse_words, is
\* that; and reverse_words applied twice is the identity.
C23_RipemdWordOrder ==
    kind = "Words" =>
        /\ last.op # "new" => Len(eng.words) = 16
        /\ eng.n = 1 =>
             /\ eng.words = LeWords(eng.block)
             /\ process_block(RIPEMD160_INITIAL_CONSTANTS, eng.block)
                  = ProcessWords(RIPEMD160_INITIAL_CONSTANTS, LeWords(eng.block))
        /\ (eng.n >= 2 /\ eng.n % 2 = 0) => eng.words = MessageSchedule16(eng.block)
        /\ (eng.n >= 2 /\ eng.n % 2 = 1) => eng.words = LeWords(eng.block)

\* reverse_words was applied twice to the schedule of a block whose bytes
\* all differ within each group
C23_Witness ==
    /\ kind = "Words"
    /\ eng.n = 2
    /\ eng.block = [k \in 1..64 |-> (k * 7 + 1) % 256]
    /\ eng.words # LeWords(eng.block)



\* ------------------------------------------------------------------------
\* Properties of the RIPEMD-160 rounds
\* ------------------------------------------------------------------------

RECURSIVE RolRef(_, _)

\* x rotated left by s bits, one bit at a time
RolRef(x, s) ==
    IF s = 0 THEN x
    ELSE RolRef(<<((x[1] * 2) % 65536) + (x[2] \div 32768),
                  ((x[2] * 2) % 65536) + (x[1] \div 32768)>>, s - 1)

\* the variable that holds each of the roles A..E after n passes, the roles
\* moving right by one variable at every pass
RolesAt(n) == [k \in 1..5 |-> ((k - 1 + 4 * n) % 5) + 1]

\* the logical registers A..E held in the variables v after n passes
Logical(v, n) == [k \in 1..5 |-> v[RolesAt(n)[k]]]

\* the functions and the constants of the five rounds of each line
RefFuncs(i) ==
    IF i < 80 THEN <<"f", "g", "h", "i", "j">>[(i \div 16) + 1]
    ELSE <<"j", "i", "h", "g", "f">>[((i - 80) \div 16) + 1]

RefConsts(i) ==
    IF i < 80
    THEN << <<\h0000, \h0000>>, <<\h5a82, \h7999>>, <<\h6ed9, \heba1>>,
            <<\h8f1b, \hbcdc>>, <<\ha953, \hfd4e>> >>[(i \div 16) + 1]
    ELSE << <<\h50a2, \h8be6>>, <<\h5c4d, \hd124>>, <<\h6d70, \h3ef3>>,
            <<\h7a6d, \h76e9>>, <<\h0000, \h0000>> >>[((i - 80) \div 16) + 1]

\* the step on the logical registers: A := ROL(A + fn(B,C,D) + W + K, s) + E
\* and C := ROL(C, 10), then the roles move right by one
RefStep(r, func, w, k, s) ==
    <<r[5],
      Plus(RolRef(Plus(Plus(Plus(r[1], ApplyFn(func, r[2], r[3], r[4])), w), k), s),
           r[5]),
      r[2], RolRef(r[3], 10), r[4]>>

\* the step number i of a block on the logical registers r
RefStepAt(r, words, i) ==
    RefStep(r, RefFuncs(i), words[RoundsOf(i).word_ord[(i % 16) + 1] + 1],
            RefConsts(i), RoundsOf(i).rol_ord[(i % 16) + 1])

\* C24: RIPEMD-160 step and register roles. Each pass of round! computes
\* A := ROL(A + fn(B,C,D) + W[r[i]] + K, s[i]) + E and C := ROL(C, 10) with
\* wrapping arithmetic on the logical registers and then moves the five roles
\* right by one variable; the array each round! call is given is the one the
\* sixteen passes before it left, so that after the eighty passes of a line
\* aa..ee (aaa..eee) hold the logical A..E again; the left line uses f, g, h,
\* i, j with 0, 0x5a827999, 0x6ed9eba1, 0x8f1bbcdc, 0xa953fd4e and the
\* parallel line j, i, h, g, f with 0x50a28be6, 0x5c4dd124, 0x6d703ef3,
\* 0x7a6d76e9, 0.
C24_RipemdSteps ==
    [][(kind = "Rounds" /\ last'.op = "round") =>
         /\ RoundsBuf(eng) = RolesAt(eng.i % 80)
         /\ eng'.buf = RolesAt((eng.i % 80) + 1)
         /\ RoundsOf(eng.i).func = RefFuncs(eng.i)
         /\ RoundsOf(eng.i).const = RefConsts(eng.i)
         /\ IF eng.i < 80
            THEN /\ Logical(eng'.l, eng.i + 1)
                      = RefStepAt(Logical(eng.l, eng.i), eng.words, eng.i)
                 /\ eng'.p = eng.p
            ELSE /\ Logical(eng'.p, eng.i - 79)
                      = RefStepAt(Logical(eng.p, eng.i - 80), eng.words, eng.i)
                 /\ eng'.l = eng.l
         /\ (eng'.i = 80 =>
                /\ eng'.buf = <<1, 2, 3, 4, 5>>
                /\ eng'.l = Logical(eng'.l, 80)
                /\ eng'.l = LeftLine(eng.buffer, eng.words))
         /\ (eng'.i = 160 =>
                /\ eng'.buf = <<1, 2, 3, 4, 5>>
                /\ eng'.p = Logical(eng'.p, 80)
                /\ eng'.p = ParallelLine(eng.buffer, eng.words))]_vars

\* both lines of the padding block of the empty message are finished
C24_Witness ==
    /\ kind = "Rounds"
    /\ last.op = "round"
    /\ eng.i = 160
    /\ eng.buffer = RIPEMD160_INITIAL_CONSTANTS
    /\ eng.words[1] = <<0, 128>>
    /\ eng.l # eng.p
    /\ eng.l # eng.buffer

RECURSIVE RefLine(_, _, _, _)

\* the second half of the steps, on the registers nr the first half left
RefLineRest(nr, words, i, end) ==
    IF nr = nr THEN RefLine(nr, words, i, end) ELSE nr

\* the logical registers r after the steps i..end-1 of a block
RefLine(r, words, i, end) ==
    IF end = i THEN r
    ELSE IF end = i + 1 THEN RefStepAt(r, words, i)
    ELSE RefLineRest(RefLine(r, words, i, (i + end) \div 2), words,
                     (i + end) \div 2, end)

\* h0' = h1 + C + D', h1' = h2 + D + E', h2' = h3 + E + A', h3' = h4 + A + B',
\* h4' = h0 + B + C'
CombineRef(h, l, p) ==
    << Plus(Plus(h[2], l[3]), p[4]), Plus(Plus(h[3], l[4]), p[5]),
       Plus(Plus(h[4], l[5]), p[1]), Plus(Plus(h[5], l[1]), p[2]),
       Plus(Plus(h[1], l[2]), p[3]) >>

\* C25: RIPEMD-160 state combine. Both lines start from the registers the
\* block started from, and after both have finished with left results
\* (A,B,C,D,E) and parallel results (A',B',C',D',E') the new state is
\* h0' = h1 + C + D', h1' = h2 + D + E', h2' = h3 + E + A', h3' = h4 + A + B',
\* h4' = h0 + B + C', all mod 2^32 and all from the state before the block.
C25_RipemdCombine ==
    kind = "Rounds" =>
        /\ (eng.i = 0 => eng.l = eng.buffer)
        /\ (eng.i <= 80 => eng.p = eng.buffer)
        /\ (last.op = "update" =>
               /\ eng.state = CombineRef(eng.buffer, eng.l, eng.p)
               /\ eng.state = CombineRef(eng.buffer,
                                  RefLine(eng.buffer, eng.words, 0, 80),
                                  RefLine(eng.buffer, eng.words, 80, 160))
               /\ eng.state = ProcessWords(eng.buffer, eng.words))

\* the padding block of the empty message has been compressed from the
\* initial registers: the new state is the RIPEMD-160 digest of the empty
\* message, 9c1185a5 c5e9fc54 61280897 7ee8f548 b2258d31
C25_Witness ==
    /\ kind = "Rounds"
    /\ last.op = "update"
    /\ eng.buffer = RIPEMD160_INITIAL_CONSTANTS
    /\ eng.state = << <<\ha585, \h119c>>, <<\h54fc, \he9c5>>, <<\h9708, \h2861>>,
                      <<\h48f5, \he87e>>, <<\h318d, \h25b2>> >>


\* ------------------------------------------------------------------------
\* Properties of the cached midstates of the HMAC engine
\* ------------------------------------------------------------------------

\* the midstates of the key an engine was constructed with, the empty key for
\* Hmac::default()
ConstructionMidstates ==
    [inner |-> PadMidstate(PrimeKey(key.own), IPAD),
     outer |-> PadMidstate(PrimeKey(key.own), OPAD)]

\* C26: the cached midstate pair of the HMAC engine is fixed at construction.
\* None of input, midstate, from_midstate, finalise and reset changes it;
\* input changes only the inner engine; and reset, also after from_midstate
\* has installed the midstates of another key, brings the inner and the outer
\* engine back to the midstates of the key of construction at length
\* BLOCKSIZE.
C26_HmacCacheFixed ==
    [][(kind = "Hmac" /\ last.ok) =>
         /\ eng.istate = ConstructionMidstates
         /\ (last'.op \in {"input", "midstate", "from_midstate", "finalise", "reset"}
                => eng'.istate = eng.istate)
         /\ (last'.op = "input" =>
                /\ eng'.outer = eng.outer
                /\ eng'.msg_buffer = eng.msg_buffer)
         /\ (last'.op = "midstate" => eng' = eng)
         /\ (last'.op = "reset" =>
                /\ midstate(eng'.inner) = ConstructionMidstates.inner
                /\ midstate(eng'.outer) = ConstructionMidstates.outer
                /\ eng'.inner.length = BLOCKSIZE
                /\ eng'.outer.length = BLOCKSIZE)]_vars

\* an engine constructed with one key was given the midstates of another key
\* and then reset: its engines hold the midstates of its own key
C26_Witness ==
    /\ kind = "Hmac"
    /\ mode = "reset_restored"
    /\ last.op = "reset"
    /\ key.own # <<>>
    /\ snap.taken
    /\ snap.key # key.own
    /\ midstate(eng.inner) # snap.mid.inner
    /\ midstate(eng.outer) # snap.mid.outer
    /\ midstate(eng.inner) = eng.istate.inner
    /\ eng.inner.length = BLOCKSIZE


\* the digest of the message M from the engine e
HmacDigestOf(e, M) == Hmac_finalise(Hmac_input(e, M)).digest

\* C27: the default HMAC engine. Hmac::default() caches the inner and outer
\* midstates of the empty key while its inner and outer engines have absorbed
\* nothing (length 0); and for every message M, default(); reset(); input(M);
\* finalise returns the digest that new_with_key(empty key); input(M);
\* finalise returns.
C27_DefaultIsEmptyKey ==
    [][(/\ kind = "Hmac"
        /\ mode = "default"
        /\ last.op \in {"new", "default"}
        /\ last'.op = "reset") =>
         /\ eng.istate = new_with_key(<<>>).eng.istate
         /\ eng.inner.length = 0
         /\ eng.outer.length = 0
         /\ \A M \in {<<>>, Fill(97, 1), Fill(99, 64)} :
                HmacDigestOf(eng', M) = HmacDigestOf(new_with_key(<<>>).eng, M)]_vars


\* ------------------------------------------------------------------------
\* Properties of the PBKDF2 builder finalised more than once
\* ------------------------------------------------------------------------

\* the digest of a builder made for the fields of e and finalised once
FreshDigest(e) ==
    PBKDF2_finalise(PBKDF2_iter(PBKDF2_input(PBKDF2_new(e.salt), e.password),
                                e.iter)).digest

\* C28: PBKDF2 finalise is read-only. It leaves password, salt and iter as
\* they were, so it may be called again without reset: two finalise calls
\* with nothing between them return the same digest, and after only iter was
\* changed between two calls the digest is the one that a fresh builder with
\* the same password, the same salt and that iter returns.
C28_FinaliseReadOnly ==
    [][(kind = "PBKDF2" /\ last'.op = "finalise") =>
         /\ eng' = eng
         /\ (last.op = "finalise" => dig' = dig)
         /\ ((snap.taken /\ eng = snap.eng) => dig' = snap.mid)
         /\ ((snap.taken /\ eng.password = snap.eng.password
                          /\ eng.salt = snap.eng.salt)
                => dig' = FreshDigest(eng))]_vars

\* a builder finalised with one iteration, then told to use two and
\* finalised again: the second digest differs from the first
C28_Witness ==
    /\ kind = "PBKDF2"
    /\ last.op = "finalise"
    /\ snap.taken
    /\ snap.len = 2
    /\ snap.eng.iter = 1
    /\ eng.iter = 2
    /\ eng.password = snap.eng.password
    /\ eng.password # <<>>
    /\ eng.salt = snap.eng.salt
    /\ dig # snap.mid
    /\ dig # <<>>


\* ------------------------------------------------------------------------
\* Properties of the loops of f_compression
\* ------------------------------------------------------------------------

RECURSIVE XorRef8(_, _)

\* the XOR of two bytes, bit by bit
XorRef8(a, b) ==
    IF a = 0 /\ b = 0 THEN 0
    ELSE (((a % 2) + (b % 2)) % 2) + 2 * XorRef8(a \div 2, b \div 2)

\* the number of entries the list of U values is to have
EntriesFor(c) == IF c > 1 THEN c ELSE 1

\* the length of the digest of the prf, T::Digest = [u8; 20]
PrfDigestLength == 20

\* the loop passes and returns made so far
FoldSteps(e, l) == e.i + e.passes + (IF l.op = "return" THEN 1 ELSE 0)

\* f_compression has a next step to take: the call before did not panic, and
\* either the for loop has a pass to make or the list has an entry to fold
\* into or to return
FoldRuns(e, l) == l.ok /\ (e.i < e.iter \/ Len(e.u) >= 1)

\* C29: the folding of PBKDF2 terminates. For every iteration count c >= 0
\* the list of U values that f_compression builds has max(c, 1) entries; each
\* pass of the XOR fold replaces the first entry by the XOR of the first two
\* and removes the second, so the fold ends after max(c, 1) - 1 passes with
\* exactly one entry, which is returned; the XOR of two digests has the
\* length of a digest, so that the conversion never panics with "bad xor".
C29_FoldTerminates ==
    [][kind = "Fold" =>
            /\ FoldSteps(eng', last') = FoldSteps(eng, last) + 1
            /\ FoldSteps(eng', last') <= 2 * EntriesFor(eng.iter)
            /\ (last'.op # "return" => FoldRuns(eng', last'))
            /\ \A k \in 1..Len(eng'.u) : Len(eng'.u[k]) = PrfDigestLength
            /\ (last'.op = "push" => Len(eng'.u) = Len(eng.u) + 1)
            /\ ((last'.op \in {"xor", "return"} /\ last.op \in {"first", "push"})
                   => Len(eng.u) = EntriesFor(eng.iter))
            /\ (last'.op = "xor" =>
                   /\ last'.ok
                   /\ Len(eng.u) = EntriesFor(eng.iter) - eng.passes
                   /\ eng'.passes = eng.passes + 1
                   /\ eng'.u[1] = [k \in 1..PrfDigestLength |->
                                      XorRef8(eng.u[1][k], eng.u[2][k])]
                   /\ Len(eng'.u) = Len(eng.u) - 1
                   /\ \A k \in 2..Len(eng'.u) : eng'.u[k] = eng.u[k + 1])
            /\ (last'.op = "return" =>
                   /\ Len(eng.u) = 1
                   /\ eng.passes = EntriesFor(eng.iter) - 1
                   /\ dig' = eng.u[1]
                   /\ dig' = f_compression(eng))]_vars

\* f_compression has returned after four iterations and three fold passes
C29_Witness ==
    /\ kind = "Fold"
    /\ last.op = "return"
    /\ eng.iter = 4
    /\ eng.passes = 3
    /\ Len(eng.u) = 1
    /\ eng.password # <<>>
    /\ dig = eng.u[1]


\* ------------------------------------------------------------------------
\* Properties of the buffer index
\* ------------------------------------------------------------------------

\* length mod m on the value of the whole field: it is kept below 2^15 so
\* that m may be subtracted limb by limb
RECURSIVE FullRem(_, _)
FullRem(x, m) ==
    IF Len(x) = 1 THEN x[1] % m
    ELSE (((FullRem(SubSeq(x, 1, Len(x) - 1), m) * (65536 % m)) % m)
          + (x[Len(x)] % m)) % m

\* C30: the arithmetic of the buffer index is width-safe. For every value of
\* the length counter (u64 or u128) the index computed as (length truncated
\* to usize) mod BLOCKSIZE equals length mod BLOCKSIZE of the whole value;
\* the range buffer_index .. buffer_index + to_write that is written never
\* ends past BLOCKSIZE; and to_write is at least 1 whenever the input is not
\* empty, so that the loop of input makes progress and terminates.
C30_BufferIndexWidthSafe ==
    [][(kind = "Index" /\ last'.op = "pass") =>
         /\ eng'.from = FullRem(eng.length, BlockSizeOf(Len(eng.length)))
         /\ eng'.to <= BlockSizeOf(Len(eng.length))
         /\ last'.ok
         /\ last'.arg >= 1
         /\ eng'.to = eng'.from + last'.arg
         /\ eng'.input = eng.input - last'.arg
         /\ eng'.input >= 0
         /\ eng'.input < eng.input
         /\ FullRem(eng'.length, BlockSizeOf(Len(eng.length)))
                = eng'.to % BlockSizeOf(Len(eng.length))]_vars

\* an engine with a u128 field on a 16-bit target whose length has bits set
\* above usize has written the whole of an input that ends in the third block
C30_Witness ==
    /\ kind = "Index"
    /\ last.op = "pass"
    /\ Len(eng.length) = 8
    /\ eng.usize = 1
    /\ eng.length[1] # 0
    /\ eng.input = 0
    /\ eng.from = 0
    /\ eng.to < SHA512_BLOCKSIZE

====
